---- MODULE Spec2Model ----
(***************************************************************************)
(* Model of harvestor's rule-based validation engine                       *)
(* (src/src/harvestor/validators): the ValidationEngine, its rule list,    *)
(* the per-rule fault boundary of validate() and the reduction of the      *)
(* collected findings into a ValidationResult.                             *)
(*                                                                         *)
(* Python floats are IEEE-754 binary64.  The engine only adds, subtracts   *)
(* and compares them, so a float is modelled exactly: a sign and a         *)
(* magnitude counted in units of 2^-57 (the ulp of 0.05, the smallest      *)
(* constant the rules use), the magnitude held in two limbs of 29 bits     *)
(* because TLC's integers are 32 bits wide.  Every sum is rounded  *)
(* to 53 significant bits, ties to even, as the hardware does.             *)
(***************************************************************************)
EXTENDS Integers, Sequences, FiniteSets, TLC

\* ------------------------------------------------------------------------
\* binary64 arithmetic
\* ------------------------------------------------------------------------

Limb == 2^29

Pow2(n) == 2^n

\* magnitudes: <<hi, lo>> stands for (hi * 2^29 + lo) * 2^-57
MagLess(a, b) == a[1] < b[1] \/ (a[1] = b[1] /\ a[2] < b[2])

MagAdd(a, b) ==
    LET lo == a[2] + b[2]
    IN  IF lo >= Limb THEN <<a[1] + b[1] + 1, lo - Limb>>
                      ELSE <<a[1] + b[1], lo>>

\* a - b for a >= b
MagSub(a, b) ==
    IF a[2] >= b[2] THEN <<a[1] - b[1], a[2] - b[2]>>
                    ELSE <<a[1] - b[1] - 1, a[2] + Limb - b[2]>>

\* number of bits by which a magnitude exceeds the 53-bit significand
ExcessBits(m) ==
    IF m[1] < Pow2(24) THEN 0
    ELSE IF m[1] < Pow2(25) THEN 1
    ELSE IF m[1] < Pow2(26) THEN 2
    ELSE IF m[1] < Pow2(27) THEN 3
    ELSE IF m[1] < Pow2(28) THEN 4
    ELSE IF m[1] < Pow2(29) THEN 5
    ELSE 6

\* round to nearest, ties to even, keeping 53 significant bits
Round53(m) ==
    LET sh   == ExcessBits(m)
        q    == Pow2(sh)
        r    == m[2] % q
        down == m[2] - r
        up   == sh > 0 /\ (2 * r > q \/ (2 * r = q /\ (m[2] \div q) % 2 = 1))
        lo   == IF up THEN down + q ELSE down
    IN  IF lo >= Limb THEN <<m[1] + 1, lo - Limb>> ELSE <<m[1], lo>>

MagZero == <<0, 0>>

Float(neg, m) == [neg |-> neg /\ m # MagZero, mag |-> m]

\* float.__add__ : the exactly rounded sum
float_add(x, y) ==
    IF x.neg = y.neg THEN Float(x.neg, Round53(MagAdd(x.mag, y.mag)))
    ELSE IF MagLess(x.mag, y.mag) THEN Float(y.neg, Round53(MagSub(y.mag, x.mag)))
    ELSE Float(x.neg, Round53(MagSub(x.mag, y.mag)))

float_neg(x) == Float(~x.neg, x.mag)

\* float.__sub__
float_sub(x, y) == float_add(x, float_neg(y))

\* float.__lt__
float_lt(x, y) ==
    IF x.neg /\ ~y.neg THEN TRUE
    ELSE IF ~x.neg /\ y.neg THEN FALSE
    ELSE IF x.neg THEN MagLess(y.mag, x.mag)
    ELSE MagLess(x.mag, y.mag)

\* the builtin min(a, b) and max(a, b): the first argument wins a tie
py_min(a, b) == IF float_lt(b, a) THEN b ELSE a
py_max(a, b) == IF float_lt(a, b) THEN b ELSE a

\* the float literals of the engine and of the rules, as binary64 values
F_0    == Float(FALSE, <<0, 0>>)
F_0_05 == Float(FALSE, <<13421772, 429496730>>)
F_0_1  == Float(FALSE, <<26843545, 322122548>>)
F_0_15 == Float(FALSE, <<40265318, 214748364>>)
F_0_2  == Float(FALSE, <<53687091, 107374184>>)
F_0_25 == Float(FALSE, <<67108864, 0>>)
F_0_3  == Float(FALSE, <<80530636, 429496728>>)
F_0_5  == Float(FALSE, <<134217728, 0>>)
F_0_8  == Float(FALSE, <<214748364, 429496736>>)
F_0_85 == Float(FALSE, <<228170137, 322122544>>)
F_1    == Float(FALSE, <<268435456, 0>>)
\* 0.01 is not a multiple of 2^-57; it is only ever the right-hand side of
\* "<", and x < 0.01 holds for a multiple x of 2^-57 exactly when x is
\* below the next multiple above 0.01
F_0_01 == Float(FALSE, <<2684354, 300647711>>)

\* ------------------------------------------------------------------------
\* Python values, dicts and exceptions
\* ------------------------------------------------------------------------

None == [t |-> "none"]
PyFloat(c) == [t |-> "float", cents |-> c]   \* a float with two decimals
PyInt(n) == [t |-> "int", v |-> n]
PyStr(s) == [t |-> "str", v |-> s]
PyList(l) == [t |-> "list", v |-> l]

\* dict.get(key): the value, or None for a missing key
dict_get(d, k) == IF k \in DOMAIN d THEN d[k] ELSE None

\* the outcome of a call: a returned value or a raised exception
Return(v) == [raised |-> FALSE, value |-> v]
Raise(e) == [raised |-> TRUE, exc |-> e]

\* ------------------------------------------------------------------------
\* Schemas, severities, findings
\* ------------------------------------------------------------------------

InvoiceData == "InvoiceData"
ReceiptData == "ReceiptData"
OtherSchema == "OtherSchema"      \* a BaseModel that is neither shape
Schemas == {InvoiceData, ReceiptData, OtherSchema}

\* issubclass(schema, s): the three schema classes do not derive from
\* one another
issubclass(schema, s) == schema = s

ERROR == "error"
WARNING == "warning"
INFO == "info"

\* RuleFinding(...) with the dataclass defaults
RuleFinding(rule_name, severity, message, field_name, confidence_impact, is_fraud_signal, fraud_weight) ==
    [rule_name |-> rule_name, severity |-> severity, message |-> message,
     field_name |-> field_name, confidence_impact |-> confidence_impact,
     is_fraud_signal |-> is_fraud_signal, fraud_weight |-> fraud_weight]

RuleFinding3(rule_name, severity, message) ==
    RuleFinding(rule_name, severity, message, None, F_0, FALSE, F_0)

\* what reading f.severity etc. needs: a RuleFinding object
IsRuleFinding(f) == "severity" \in DOMAIN f

\* ------------------------------------------------------------------------
\* String formatting
\* ------------------------------------------------------------------------

Digit(d) == SubSeq("0123456789", d + 1, d + 1)

RECURSIVE NatStr(_)
NatStr(n) == IF n < 10 THEN Digit(n) ELSE NatStr(n \div 10) \o Digit(n % 10)

Abs(n) == IF n < 0 THEN -n ELSE n

\* f"{x:.2f}" for a float with two decimals
fmt_2f(c) ==
    (IF c < 0 THEN "-" ELSE "") \o NatStr(Abs(c) \div 100) \o "."
        \o Digit((Abs(c) % 100) \div 10) \o Digit(Abs(c) % 10)

\* str(x) of a float with two decimals: the shortest repr, one decimal at least
str_float(c) ==
    (IF c < 0 THEN "-" ELSE "") \o NatStr(Abs(c) \div 100) \o "."
        \o Digit((Abs(c) % 100) \div 10)
        \o (IF Abs(c) % 10 = 0 THEN "" ELSE Digit(Abs(c) % 10))

\* f"{value}"
py_str(v) ==
    CASE v.t = "float" -> str_float(v.cents)
      [] v.t = "int" -> (IF v.v < 0 THEN "-" ELSE "") \o NatStr(Abs(v.v))
      [] v.t = "str" -> v.v
      [] v.t = "none" -> "None"

Whitespace == {" ", "\t", "\n", "\r"}

\* not s.strip(): nothing but whitespace
IsBlank(s) == \A i \in 1..Len(s) : SubSeq(s, i, i) \in Whitespace

\* isinstance(v, (int, float))
IsNumber(v) == v.t \in {"int", "float"}

\* the numeric value of an int or a float, in hundredths
Cents(v) == IF v.t = "int" THEN 100 * v.v ELSE v.cents

\* ------------------------------------------------------------------------
\* binary64 over the range of the amounts of a record.  A magnitude is a
\* natural number of units of 2^-75, written in base 2^15 with the low
\* digit first and no leading zero digit; every result is rounded to 53
\* significant bits, ties to even.
\* ------------------------------------------------------------------------

Base == 2^15
UnitDigits == 5                  \* 2^75 units make 1.0

BigDigit(a, k) == IF k <= Len(a) THEN a[k] ELSE 0

RECURSIVE BigNorm(_)
BigNorm(a) ==
    IF a = <<>> THEN <<>>
    ELSE IF a[Len(a)] = 0 THEN BigNorm(SubSeq(a, 1, Len(a) - 1)) ELSE a

RECURSIVE BigAddFrom(_, _, _, _)
BigAddFrom(a, b, k, carry) ==
    IF k > Len(a) /\ k > Len(b) THEN (IF carry = 0 THEN <<>> ELSE <<carry>>)
    ELSE LET s == BigDigit(a, k) + BigDigit(b, k) + carry
         IN  <<s % Base>> \o BigAddFrom(a, b, k + 1, s \div Base)

BigAdd(a, b) == BigAddFrom(a, b, 1, 0)

\* a - b, for a >= b
RECURSIVE BigSubFrom(_, _, _, _)
BigSubFrom(a, b, k, borrow) ==
    IF k > Len(a) THEN <<>>
    ELSE LET s == a[k] - BigDigit(b, k) - borrow
         IN  <<(s + Base) % Base>> \o BigSubFrom(a, b, k + 1, IF s < 0 THEN 1 ELSE 0)

BigSub(a, b) == BigNorm(BigSubFrom(a, b, 1, 0))

RECURSIVE BigLessFrom(_, _, _)
BigLessFrom(a, b, k) ==
    IF k = 0 THEN FALSE
    ELSE IF a[k] # b[k] THEN a[k] < b[k]
    ELSE BigLessFrom(a, b, k - 1)

BigLess(a, b) ==
    IF Len(a) # Len(b) THEN Len(a) < Len(b) ELSE BigLessFrom(a, b, Len(a))

\* a * m for a digit m
RECURSIVE BigTimesFrom(_, _, _, _)
BigTimesFrom(a, m, k, carry) ==
    IF k > Len(a) THEN (IF carry = 0 THEN <<>> ELSE <<carry>>)
    ELSE LET s == a[k] * m + carry
         IN  <<s % Base>> \o BigTimesFrom(a, m, k + 1, s \div Base)

BigTimes(a, m) == BigNorm(BigTimesFrom(a, m, 1, 0))

Zeros(n) == [k \in 1..n |-> 0]

RECURSIVE BigMulFrom(_, _, _)
BigMulFrom(a, b, k) ==
    IF k > Len(b) THEN <<>>
    ELSE BigAdd(BigNorm(Zeros(k - 1) \o BigTimes(a, b[k])), BigMulFrom(a, b, k + 1))

BigMul(a, b) == BigMulFrom(a, b, 1)

\* a divided by a small m: quotient and remainder, from the high digit down
RECURSIVE BigDivFrom(_, _, _, _)
BigDivFrom(a, m, k, rem) ==
    IF k = 0 THEN [q |-> <<>>, r |-> rem]
    ELSE LET cur == rem * Base + a[k]
             rest == BigDivFrom(a, m, k - 1, cur % m)
         IN  [q |-> Append(rest.q, cur \div m), r |-> rest.r]

BigDiv(a, m) ==
    LET d == BigDivFrom(a, m, Len(a), 0) IN [q |-> BigNorm(d.q), r |-> d.r]

\* a * 2^d and floor(a / 2^d)
BigShl(a, d) == BigNorm(Zeros(d \div 15) \o BigTimes(a, 2^(d % 15)))
BigShr(a, d) ==
    IF d \div 15 >= Len(a) THEN <<>>
    ELSE BigDiv(SubSeq(a, (d \div 15) + 1, Len(a)), 2^(d % 15)).q

RECURSIVE BitLen(_)
BitLen(n) == IF n = 0 THEN 0 ELSE 1 + BitLen(n \div 2)

BigBitLen(a) == IF a = <<>> THEN 0 ELSE 15 * (Len(a) - 1) + BitLen(a[Len(a)])

RECURSIVE BigOfNat(_)
BigOfNat(n) == IF n = 0 THEN <<>> ELSE <<n % Base>> \o BigOfNat(n \div Base)

RECURSIVE NatOfBig(_)
NatOfBig(a) == IF a = <<>> THEN 0 ELSE a[1] + Base * NatOfBig(Tail(a))

\* round to 53 significant bits, ties to even; sticky says that the exact
\* value lies above a
BigRound53(a, sticky) ==
    IF BigBitLen(a) <= 53 THEN a
    ELSE LET d == BigBitLen(a) - 53
             rounded(q, rem, half) ==
                 BigShl(IF BigLess(half, rem) \/ (rem = half /\ (sticky \/ q[1] % 2 = 1))
                        THEN BigAdd(q, <<1>>) ELSE q, d)
             with_quotient(q) == rounded(q, BigSub(a, BigShl(q, d)), BigShl(<<1>>, d - 1))
         IN  with_quotient(BigShr(a, d))

\* a double: sign and magnitude; a zero keeps its sign
Double(neg, mag) == [neg |-> neg, mag |-> mag]

\* the double nearest to c / 100: what a literal with two decimals denotes
double_of_cents(c) ==
    LET d == BigDiv(BigShl(BigOfNat(Abs(c)), 15 * UnitDigits), 100)
    IN  Double(c < 0, BigRound53(d.q, d.r # 0))

double_add(x, y) ==
    LET swap == x.neg # y.neg /\ BigLess(x.mag, y.mag)
        larger == IF swap THEN y ELSE x
        smaller == IF swap THEN x ELSE y
        signed(mag) == Double(larger.neg /\ (mag # <<>> \/ x.neg = y.neg), mag)
    IN  signed(BigRound53(IF x.neg = y.neg THEN BigAdd(larger.mag, smaller.mag)
                          ELSE BigSub(larger.mag, smaller.mag), FALSE))

double_neg(x) == Double(~x.neg, x.mag)
double_sub(x, y) == double_add(x, double_neg(y))
double_abs(x) == Double(FALSE, x.mag)

\* the product: exact in units of 2^-150, rounded, back in units of 2^-75
double_mul(x, y) ==
    Double(x.neg # y.neg,
           BigShr(BigRound53(BigMul(x.mag, y.mag), FALSE), 15 * UnitDigits))

double_lt(x, y) ==
    IF x.mag = <<>> /\ y.mag = <<>> THEN FALSE
    ELSE IF x.neg # y.neg THEN x.neg
    ELSE IF x.neg THEN BigLess(y.mag, x.mag) ELSE BigLess(x.mag, y.mag)

\* round(x * 100) to the nearest integer, ties to even, with the sign:
\* the digits f"{x:.2f}" prints
double_cents(x) ==
    LET signed(n) == IF x.neg THEN -n ELSE n
        rounded(q, rem, half) ==
            signed(NatOfBig(q)
                   + (IF BigLess(half, rem) \/ (rem = half /\ q # <<>> /\ q[1] % 2 = 1)
                      THEN 1 ELSE 0))
        with_quotient(h, q) ==
            rounded(q, BigSub(h, BigShl(q, 15 * UnitDigits)),
                    BigShl(<<1>>, 15 * UnitDigits - 1))
        with_hundredfold(h) == with_quotient(h, BigShr(h, 15 * UnitDigits))
    IN  with_hundredfold(BigTimes(x.mag, 100))

\* the interpreter that runs the program: sum() is compensated from
\* Python 3.12 on, and the package accepts every version from 3.10
VARIABLE compensated_sum

\* float(v) of an int or a float of a record
to_double(v) == double_of_cents(Cents(v))

\* f"{x:.2f}" of a double; a negative value that rounds to zero keeps its sign
format_2f(x) ==
    LET signed(n) == (IF x.neg /\ n = 0 THEN "-" ELSE "") \o fmt_2f(n)
    IN  signed(double_cents(x))

\* the builtin sum() over ints and floats, as a double.  Before Python 3.12
\* every item is added in turn; from 3.12 on the floats after the first are
\* added with Neumaier's compensation, the ints plainly.
\* the compensation after f_result + x = t: the low-order bits the
\* addition lost, taken from the larger of the two
neumaier_c(c, f_result, x, t) ==
    LET x_larger == BigLess(f_result.mag, x.mag)
    IN  double_add(c, double_add(double_sub(IF x_larger THEN x ELSE f_result, t),
                                 IF x_larger THEN f_result ELSE x))

RECURSIVE sum_numbers(_, _, _, _, _)
sum_numbers(f_result, c, in_float_loop, xs, compensated) ==
    IF xs = <<>>
    THEN IF c.mag # <<>> THEN double_add(f_result, c) ELSE f_result
    ELSE LET plain == ~compensated \/ Head(xs).t = "int" \/ ~in_float_loop
             added(x, t) ==
                 sum_numbers(t, IF plain THEN c ELSE neumaier_c(c, f_result, x, t),
                             in_float_loop \/ Head(xs).t = "float", Tail(xs), compensated)
             with_item(x) == added(x, double_add(f_result, x))
         IN  with_item(to_double(Head(xs)))

D_0 == Double(FALSE, <<>>)

\* ------------------------------------------------------------------------
\* The built-in rules.  A rule instance is named by its class; the built-in
\* rules carry only their default configuration.
\* ------------------------------------------------------------------------

PySet(S) == [t |-> "set", v |-> S]

BothShapes == PySet({InvoiceData, ReceiptData})

\* items_key = "line_items" if "line_items" in data else "items"
items_key(data) == IF "line_items" \in DOMAIN data THEN "line_items" ELSE "items"

\* "not items": None and the empty list are falsy
Falsy(v) == v = None \/ (v.t = "list" /\ v.v = <<>>)

\* isinstance(v, dict): a dict is a function from its keys, every other
\* value carries its type
IsDict(v) == "t" \notin DOMAIN v

\* [make(x) for x in xs if keep(x)]
Comprehension(xs, keep(_), make(_)) ==
    LET kept == SelectSeq(xs, keep)
    IN  [i \in 1..Len(kept) |-> make(kept[i])]

\* tolerance: float = 0.02, the default of the arithmetic rules
tolerance == double_of_cents(2)
D_1 == double_of_cents(100)

\* a fault: the bounds of the tiers taken inclusive
exceeds_or_equals(diff, bound) == ~double_lt(diff, bound)

\* diff > bound
exceeds(diff, bound) == double_lt(bound, diff)

\* x for x in xs: a list gives its elements, a str its characters; a
\* number is not iterable
Iterate(v) ==
    CASE v.t = "list" -> Return(v.v)
      [] v.t = "str" -> Return([k \in 1..Len(v.v) |-> PyStr(SubSeq(v.v, k, k))])
      [] OTHER -> Raise("TypeError")

\* item.get("amount", 0) or 0
amount_or_0(item) ==
    LET amount == IF "amount" \in DOMAIN item THEN item["amount"] ELSE PyInt(0)
    IN  IF amount = None \/ (IsNumber(amount) /\ Cents(amount) = 0)
           \/ (amount.t = "str" /\ amount.v = "")
        THEN PyInt(0) ELSE amount

\* a fault: the Warning of the middle tier is flagged as a fraud signal
\* and keeps the weight 0.0
tier_finding_flagged(rule_name, diff, message, field_name, fraud_weight) ==
    IF ~exceeds(diff, tolerance) THEN Return(<<>>)
    ELSE IF exceeds(diff, D_1)
    THEN Return(<<RuleFinding(rule_name, ERROR, message, field_name,
                              F_0_15, TRUE, fraud_weight)>>)
    ELSE Return(<<RuleFinding(rule_name, WARNING, message, field_name,
                              F_0_05, TRUE, F_0)>>)

\* the finding of an arithmetic rule for a difference: none within the
\* tolerance, a Warning up to 1.0, an Error and fraud signal above
tier_finding(rule_name, diff, message, field_name, fraud_weight) ==
    IF ~exceeds(diff, tolerance) THEN Return(<<>>)
    ELSE IF exceeds(diff, D_1)
    THEN Return(<<RuleFinding(rule_name, ERROR, message, field_name,
                              F_0_15, TRUE, fraud_weight)>>)
    ELSE Return(<<RuleFinding(rule_name, WARNING, message, field_name,
                              F_0_05, FALSE, F_0)>>)

\* LineItemsSumRule.validate
LineItemsSumRule_validate(data, schema) ==
    LET items == dict_get(data, items_key(data))
        subtotal == dict_get(data, "subtotal")
    IN  IF items = None \/ subtotal = None THEN Return(<<>>)
        ELSE IF Iterate(items).raised THEN Iterate(items)
        ELSE LET amounts == Comprehension(Iterate(items).value, IsDict, amount_or_0)
                 compared(computed_sum, expected, diff) ==
                     tier_finding("line_items_sum_to_subtotal", diff,
                         "Line items sum (" \o format_2f(computed_sum)
                             \o ") does not match subtotal ("
                             \o format_2f(expected) \o "), diff=" \o format_2f(diff),
                         PyStr("subtotal"), F_0_2)
                 summed(computed_sum, expected) ==
                     compared(computed_sum, expected,
                              double_abs(double_sub(computed_sum, expected)))
             IN  IF (\E k \in 1..Len(amounts) : ~IsNumber(amounts[k])) \/ ~IsNumber(subtotal)
                 THEN Raise("TypeError")
                 ELSE summed(sum_numbers(D_0, D_0, FALSE, amounts, compensated_sum),
                             to_double(subtotal))

\* The other arithmetic rules, up to their early return.

\* "not v" for the values of a record
IsFalsy(v) ==
    \/ v = None
    \/ IsNumber(v) /\ Cents(v) = 0
    \/ v.t \in {"str", "list"} /\ Len(v.v) = 0

\* v or 0.0
or_zero(v) == IF IsFalsy(v) THEN PyFloat(0) ELSE v

\* a fault: the discount read from the record whatever the shape
discount_of_any_shape(data, schema) == or_zero(dict_get(data, "discount"))

\* discount = data.get("discount") or 0.0 for an invoice, 0.0 otherwise
discount_of(data, schema) ==
    IF issubclass(schema, InvoiceData) THEN or_zero(dict_get(data, "discount"))
    ELSE PyFloat(0)

\* SubtotalTaxTotalRule.validate
SubtotalTaxTotalRule_validate(data, schema) ==
    LET subtotal == dict_get(data, "subtotal")
        invoice == issubclass(schema, InvoiceData)
        tax0 == IF invoice THEN dict_get(data, "tax_amount") ELSE dict_get(data, "tax")
        total == IF invoice THEN dict_get(data, "total_amount") ELSE dict_get(data, "total")
        discount == discount_of(data, schema)
        compared(s, t, d, expected_total, actual, diff) ==
            tier_finding("subtotal_plus_tax_equals_total", diff,
                "Subtotal (" \o format_2f(s) \o ") + tax (" \o format_2f(t)
                    \o ") - discount (" \o format_2f(d)
                    \o ") = " \o format_2f(expected_total)
                    \o ", but total is " \o format_2f(actual)
                    \o ", diff=" \o format_2f(diff),
                PyStr(IF invoice THEN "total_amount" ELSE "total"), F_0_25)
        expected(s, t, d, expected_total, actual) ==
            compared(s, t, d, expected_total, actual,
                     double_abs(double_sub(expected_total, actual)))
        converted(s, t, d, actual) ==
            expected(s, t, d, double_sub(double_add(s, t), d), actual)
    IN  IF subtotal = None \/ total = None THEN Return(<<>>)
        ELSE IF ~IsNumber(subtotal) \/ ~IsNumber(or_zero(tax0)) \/ ~IsNumber(discount)
                \/ ~IsNumber(total)
        THEN Raise("TypeError")
        ELSE converted(to_double(subtotal), to_double(or_zero(tax0)),
                       to_double(discount), to_double(total))

\* a or b
py_or(a, b) == IF IsFalsy(a) THEN b ELSE a

\* the findings of LineItemMathRule for the items from position k on;
\* enumerate() counts from 0
RECURSIVE LineItemMath_from(_, _, _)
LineItemMath_from(items, k, key) ==
    IF k > Len(items) THEN Return(<<>>)
    ELSE LET item == items[k]
             rest == LineItemMath_from(items, k + 1, key)
             quantity == dict_get(item, "quantity")
             amount == dict_get(item, "amount")
             unit_price == py_or(dict_get(item, "unit_price_with_taxes"),
                                 dict_get(item, "unit_price_without_taxes"))
             item_name == IF "name" \in DOMAIN item THEN py_str(item["name"])
                          ELSE "item #" \o NatStr(k)
             compared(price, expected, actual, diff) ==
                 IF ~exceeds(diff, tolerance) THEN rest
                 ELSE IF rest.raised THEN rest
                 ELSE Return(<<RuleFinding("line_item_internal_math", WARNING,
                         "Line item '" \o item_name \o "': quantity ("
                             \o py_str(quantity) \o ") * unit_price ("
                             \o format_2f(price) \o ") = "
                             \o format_2f(expected) \o ", but amount is "
                             \o format_2f(actual),
                         PyStr(key \o "[" \o NatStr(k - 1) \o "].amount"),
                         F_0_05, FALSE, F_0)>> \o rest.value)
             multiplied(price, expected, actual) ==
                 compared(price, expected, actual, double_abs(double_sub(expected, actual)))
             converted(q, price, actual) == multiplied(price, double_mul(q, price), actual)
         IN  IF ~IsDict(item) THEN rest
             ELSE IF quantity = None \/ unit_price = None \/ amount = None THEN rest
             ELSE IF ~IsNumber(quantity) \/ ~IsNumber(unit_price) \/ ~IsNumber(amount)
             THEN Raise("TypeError")
             ELSE converted(to_double(quantity), to_double(unit_price), to_double(amount))

\* LineItemMathRule.validate
LineItemMathRule_validate(data, schema) ==
    LET items == dict_get(data, items_key(data))
    IN  IF IsFalsy(items) THEN Return(<<>>)
        ELSE IF Iterate(items).raised THEN Iterate(items)
        ELSE LineItemMath_from(Iterate(items).value, 1, items_key(data))

\* x / 100.0: the quotient in units of 2^-90, rounded, back in units of 2^-75
double_div_100(x) ==
    LET rounded(d) == Double(x.neg, BigShr(BigRound53(d.q, d.r # 0), 15))
    IN  rounded(BigDiv(BigShl(x.mag, 15), 100))

\* the findings of TaxConsistencyRule for the items from position k on;
\* enumerate() counts from 0
RECURSIVE TaxConsistency_from(_, _, _)
TaxConsistency_from(items, k, key) ==
    IF k > Len(items) THEN Return(<<>>)
    ELSE LET item == items[k]
             rest == TaxConsistency_from(items, k + 1, key)
             taxes == dict_get(item, "taxes")
             taxes_pct == dict_get(item, "taxes_percentage")
             base_price == py_or(dict_get(item, "unit_price_without_taxes"),
                                 dict_get(item, "amount"))
             item_name == IF "name" \in DOMAIN item THEN py_str(item["name"])
                          ELSE "item #" \o NatStr(k)
             compared(expected_taxes, price, actual, diff) ==
                 IF ~exceeds(diff, tolerance) THEN rest
                 ELSE IF rest.raised THEN rest
                 ELSE Return(<<RuleFinding("tax_percentage_consistency", WARNING,
                         "Line item '" \o item_name \o "': expected taxes "
                             \o format_2f(expected_taxes) \o " ("
                             \o py_str(taxes_pct) \o "% of "
                             \o format_2f(price) \o "), but got "
                             \o format_2f(actual),
                         PyStr(key \o "[" \o NatStr(k - 1) \o "].taxes"),
                         F_0_05, FALSE, F_0)>> \o rest.value)
             subtracted(expected_taxes, price, actual) ==
                 compared(expected_taxes, price, actual,
                          double_abs(double_sub(expected_taxes, actual)))
             converted(price, pct, actual) ==
                 subtracted(double_div_100(double_mul(price, pct)), price, actual)
         IN  IF ~IsDict(item) THEN rest
             ELSE IF taxes = None \/ taxes_pct = None \/ base_price = None THEN rest
             ELSE IF ~IsNumber(taxes) \/ ~IsNumber(taxes_pct) \/ ~IsNumber(base_price)
             THEN Raise("TypeError")
             ELSE converted(to_double(base_price), to_double(taxes_pct), to_double(taxes))

\* TaxConsistencyRule.validate
TaxConsistencyRule_validate(data, schema) ==
    LET items == dict_get(data, items_key(data))
    IN  IF IsFalsy(items) THEN Return(<<>>)
        ELSE IF Iterate(items).raised THEN Iterate(items)
        ELSE TaxConsistency_from(Iterate(items).value, 1, items_key(data))

\* a tuple, here the (year, month, day) of a parsed date
PyTuple(l) == [t |-> "tuple", v |-> l]

Char(s, k) == SubSeq(s, k, k)
IsDigit(c) == \E d \in 0..9 : Digit(d) = c
DigitValue(c) == CHOOSE d \in 0..9 : Digit(d) = c

\* the characters from..to of s are there and are all digits
DigitsAt(s, from, to) == to <= Len(s) /\ \A k \in from..to : IsDigit(Char(s, k))

\* int(s) of a string of digits
RECURSIVE int_of(_)
int_of(s) ==
    IF s = "" THEN 0
    ELSE 10 * int_of(SubSeq(s, 1, Len(s) - 1)) + DigitValue(Char(s, Len(s)))

\* c.lower() of one character: the ASCII letters
lower_char(c) ==
    IF \E k \in 1..26 : Char("ABCDEFGHIJKLMNOPQRSTUVWXYZ", k) = c
    THEN Char("abcdefghijklmnopqrstuvwxyz",
              CHOOSE k \in 1..26 : Char("ABCDEFGHIJKLMNOPQRSTUVWXYZ", k) = c)
    ELSE c

\* s.lower()
RECURSIVE lower(_)
lower(s) == IF s = "" THEN "" ELSE lower_char(Char(s, 1)) \o lower(SubSeq(s, 2, Len(s)))

\* s.strip()
RECURSIVE strip(_)
strip(s) ==
    IF s = "" THEN s
    ELSE IF Char(s, 1) \in Whitespace THEN strip(SubSeq(s, 2, Len(s)))
    ELSE IF Char(s, Len(s)) \in Whitespace THEN strip(SubSeq(s, 1, Len(s) - 1))
    ELSE s

\* Regular expressions over the character classes the rules use.  A
\* pattern is a sequence of items, each a class or a literal character
\* repeated between min and max times; max = -1 stands for no upper limit.
Letters ==
    {Char("abcdefghijklmnopqrstuvwxyzABCDEFGHIJKLMNOPQRSTUVWXYZ", k) : k \in 1..52}

\* \d, \w, \s, or the character itself
InClass(c, cls) ==
    CASE cls = "\\d" -> IsDigit(c)
      [] cls = "\\w" -> IsDigit(c) \/ c = "_" \/ c \in Letters
      [] cls = "\\s" -> c \in Whitespace
      [] OTHER -> c = cls

Rep(cls, min, max) == [cls |-> cls, min |-> min, max |-> max]

\* the pattern matches at position p of s, the engine backtracking over
\* the lengths of the repetitions
RECURSIVE regex_match_at(_, _, _)
regex_match_at(s, p, pattern) ==
    IF pattern = <<>> THEN TRUE
    ELSE LET item == Head(pattern)
             left == Len(s) - p + 1
             most == IF item.max < 0 \/ item.max > left THEN left ELSE item.max
         IN  \E n \in item.min..most :
                 /\ \A k \in p..(p + n - 1) : InClass(Char(s, k), item.cls)
                 /\ regex_match_at(s, p + n, Tail(pattern))

\* re.search(pattern, s): the pattern, one of the alternatives, matches
\* somewhere in s
regex_search(s, patterns) ==
    \E p \in 1..Len(s) + 1 : \E j \in 1..Len(patterns) :
        regex_match_at(s, p, patterns[j])

\* _DATE_PATTERNS, joined into _DATE_REGEX
_DATE_PATTERNS ==
    <<<<Rep("\\d", 4, 4), Rep("-", 1, 1), Rep("\\d", 2, 2), Rep("-", 1, 1),
        Rep("\\d", 2, 2)>>,
      <<Rep("\\d", 2, 2), Rep("/", 1, 1), Rep("\\d", 2, 2), Rep("/", 1, 1),
        Rep("\\d", 4, 4)>>,
      <<Rep("\\d", 2, 2), Rep("-", 1, 1), Rep("\\d", 2, 2), Rep("-", 1, 1),
        Rep("\\d", 4, 4)>>,
      <<Rep("\\d", 1, 2), Rep("\\s", 1, -1), Rep("\\w", 1, -1), Rep("\\s", 1, -1),
        Rep("\\d", 4, 4)>>,
      <<Rep("\\w", 1, -1), Rep("\\s", 1, -1), Rep("\\d", 1, 2), Rep(",", 0, 1),
        Rep("\\s", 1, -1), Rep("\\d", 4, 4)>>,
      <<Rep("\\d", 2, 2), Rep(".", 1, 1), Rep("\\d", 2, 2), Rep(".", 1, 1),
        Rep("\\d", 4, 4)>>>>

\* DateFormatRule.validate
DateFormatRule_validate(data, schema) ==
    LET date_fields == IF issubclass(schema, InvoiceData)
                       THEN <<"date", "due_date">> ELSE <<"date">>
        unmatched(field_name) ==
            LET value == dict_get(data, field_name)
            IN  /\ value # None
                /\ ~IsDict(value)
                /\ value.t = "str"
                /\ ~regex_search(value.v, _DATE_PATTERNS)
        finding(field_name) ==
            RuleFinding("date_format_valid", WARNING,
                        "Field '" \o field_name \o "' value '"
                            \o dict_get(data, field_name).v
                            \o "' does not match common date formats",
                        PyStr(field_name), F_0_05, FALSE, F_0)
    IN  Return(Comprehension(date_fields, unmatched, finding))

\* _VALID_CURRENCIES
_VALID_CURRENCIES ==
    {"USD", "EUR", "GBP", "JPY", "CHF", "CAD", "AUD", "NZD", "CNY", "HKD",
     "SGD", "SEK", "NOK", "DKK", "KRW", "INR", "BRL", "MXN", "ZAR", "RUB",
     "TRY", "PLN", "CZK", "HUF", "ILS", "THB", "MYR", "PHP", "IDR", "TWD",
     "AED", "SAR", "ARS", "CLP", "COP", "PEN", "EGP", "NGN", "KES", "MAD"}

\* c.upper() of one character: the ASCII letters
upper_char(c) ==
    IF \E k \in 1..26 : Char("abcdefghijklmnopqrstuvwxyz", k) = c
    THEN Char("ABCDEFGHIJKLMNOPQRSTUVWXYZ",
              CHOOSE k \in 1..26 : Char("abcdefghijklmnopqrstuvwxyz", k) = c)
    ELSE c

\* s.upper()
RECURSIVE upper(_)
upper(s) == IF s = "" THEN "" ELSE upper_char(Char(s, 1)) \o upper(SubSeq(s, 2, Len(s)))

\* CurrencyCodeRule.validate
CurrencyCodeRule_validate(data, schema) ==
    LET currency == dict_get(data, "currency")
    IN  IF currency = None THEN Return(<<>>)
        ELSE IF IsDict(currency) \/ currency.t # "str" THEN Return(<<>>)
        ELSE IF upper(strip(currency.v)) \notin _VALID_CURRENCIES
        THEN Return(<<RuleFinding("currency_code_valid", WARNING,
                        "Currency code '" \o currency.v
                            \o "' is not a recognized ISO 4217 code",
                        PyStr("currency"), F_0_05, FALSE, F_0)>>)
        ELSE Return(<<>>)

\* len(cleaned) < 5
shorter(cleaned, n) == Len(cleaned) < n

\* TaxIdFormatRule.validate
TaxIdFormatRule_validate(data, schema) ==
    LET tax_id == dict_get(data, "vendor_tax_id")
    IN  IF tax_id = None THEN Return(<<>>)
        ELSE IF IsDict(tax_id) \/ tax_id.t # "str" THEN Return(<<>>)
        ELSE IF shorter(strip(tax_id.v), 5)
        THEN Return(<<RuleFinding("tax_id_format_valid", WARNING,
                        "Vendor tax ID '" \o tax_id.v
                            \o "' is suspiciously short (< 5 characters)",
                        PyStr("vendor_tax_id"), F_0_05, TRUE, F_0_1)>>)
        ELSE Return(<<>>)

\* re.match(r"\d{4}", s): four digits at the start of s
match_4_digits(s) == DigitsAt(s, 1, 4)

\* re.fullmatch(r"\d{4}", s): s is four digits and nothing else
fullmatch_4_digits(s) == Len(s) = 4 /\ DigitsAt(s, 1, 4)

CardLastFourRule_validate(data, schema) ==
    LET card == dict_get(data, "card_last_four")
    IN  IF card = None THEN Return(<<>>)
        ELSE IF ~fullmatch_4_digits(strip(py_str(card)))
        THEN Return(<<RuleFinding("card_last_four_format", WARNING,
                        "card_last_four '" \o py_str(card) \o "' is not exactly 4 digits",
                        PyStr("card_last_four"), F_0_05, FALSE, F_0)>>)
        ELSE Return(<<>>)

\* value is None or (isinstance(value, str) and not value.strip()), and
\* the mutant that tests "not value"
is_missing_or_falsy(value) ==
    \/ value = None
    \/ (value.t = "str" /\ IsBlank(value.v))
    \/ (IsNumber(value) /\ Cents(value) = 0)

is_missing(value) == value = None \/ (value.t = "str" /\ IsBlank(value.v))

RequiredFieldsRule_validate(data, schema) ==
    LET required == IF issubclass(schema, InvoiceData)
                    THEN <<"invoice_number", "date", "total_amount", "vendor_name">>
                    ELSE <<"merchant_name", "date", "total">>
        missing(field_name) == is_missing(dict_get(data, field_name))
        finding(field_name) ==
            RuleFinding("required_fields_present", WARNING,
                        "Required field '" \o field_name \o "' is missing or empty",
                        PyStr(field_name), F_0_05, FALSE, F_0)
    IN  Return(Comprehension(required, missing, finding))

\* the month names of the C locale: %B and %b
f_month ==
    <<"january", "february", "march", "april", "may", "june", "july",
      "august", "september", "october", "november", "december">>
a_month ==
    <<"jan", "feb", "mar", "apr", "may", "jun", "jul", "aug", "sep", "oct",
      "nov", "dec">>

\* the formats _try_parse_date tries after the ISO pattern, in order;
\* a format is the sequence of its directives and literal characters
strptime_formats ==
    <<<<"%m", "/", "%d", "/", "%Y">>,
      <<"%d", "/", "%m", "/", "%Y">>,
      <<"%m", "-", "%d", "-", "%Y">>,
      <<"%d", "-", "%m", "-", "%Y">>,
      <<"%B", " ", "%d", ",", " ", "%Y">>,
      <<"%B", " ", "%d", " ", "%Y">>,
      <<"%d", " ", "%B", " ", "%Y">>,
      <<"%b", " ", "%d", ",", " ", "%Y">>,
      <<"%b", " ", "%d", " ", "%Y">>,
      <<"%d", " ", "%b", " ", "%Y">>,
      <<"%d", ".", "%m", ".", "%Y">>>>

\* the position after the run of whitespace that starts at p
RECURSIVE skip_whitespace(_, _)
skip_whitespace(s, p) ==
    IF p <= Len(s) /\ Char(s, p) \in Whitespace THEN skip_whitespace(s, p + 1) ELSE p

\* the month whose name (from names) s carries at p, or 0
month_at(s, p, names) ==
    LET hits == {m \in 1..12 : /\ p + Len(names[m]) - 1 <= Len(s)
                                /\ lower(SubSeq(s, p, p + Len(names[m]) - 1)) = names[m]}
    IN  IF hits = {} THEN 0 ELSE CHOOSE m \in hits : TRUE

\* calendar.monthrange(year, month)[1]
days_in_month(year, month) ==
    IF month = 2
    THEN (IF year % 4 = 0 /\ (year % 100 # 0 \/ year % 400 = 0) THEN 29 ELSE 28)
    ELSE IF month \in {4, 6, 9, 11} THEN 30 ELSE 31

\* the match of the regular expression of a format against s from p on,
\* with the fields found so far: the fields, or None when s does not
\* match or data remains unconverted
RECURSIVE strptime_from(_, _, _, _)
strptime_from(s, p, format, found) ==
    IF format = <<>> THEN (IF p = Len(s) + 1 THEN found ELSE None)
    ELSE LET directive == Head(format)
             rest == Tail(format)
             two == IF DigitsAt(s, p, p + 1) THEN int_of(SubSeq(s, p, p + 1)) ELSE 0
             one == IF DigitsAt(s, p, p) THEN int_of(Char(s, p)) ELSE 0
         IN  CASE directive = "%Y" ->
                    IF DigitsAt(s, p, p + 3)
                    THEN strptime_from(s, p + 4, rest,
                                       [found EXCEPT !.Y = int_of(SubSeq(s, p, p + 3))])
                    ELSE None
               [] directive = "%m" ->
                    IF two \in 1..12
                    THEN strptime_from(s, p + 2, rest, [found EXCEPT !.m = two])
                    ELSE IF one \in 1..9
                    THEN strptime_from(s, p + 1, rest, [found EXCEPT !.m = one])
                    ELSE None
               [] directive = "%d" ->
                    IF two \in 1..31
                    THEN strptime_from(s, p + 2, rest, [found EXCEPT !.d = two])
                    ELSE IF one \in 1..9
                    THEN strptime_from(s, p + 1, rest, [found EXCEPT !.d = one])
                    ELSE IF p + 1 <= Len(s) /\ Char(s, p) = " "
                            /\ DigitsAt(s, p + 1, p + 1) /\ Char(s, p + 1) # "0"
                    THEN strptime_from(s, p + 2, rest,
                                       [found EXCEPT !.d = int_of(Char(s, p + 1))])
                    ELSE None
               [] directive \in {"%B", "%b"} ->
                    LET names == IF directive = "%B" THEN f_month ELSE a_month
                        month == month_at(s, p, names)
                    IN  IF month = 0 THEN None
                        ELSE strptime_from(s, p + Len(names[month]), rest,
                                           [found EXCEPT !.m = month])
               [] directive = " " ->
                    IF skip_whitespace(s, p) = p THEN None
                    ELSE strptime_from(s, skip_whitespace(s, p), rest, found)
               [] OTHER ->
                    IF p <= Len(s) /\ Char(s, p) = directive
                    THEN strptime_from(s, p + 1, rest, found)
                    ELSE None

\* datetime.strptime(s, format): the date, or ValueError when s does not
\* match the format or names a day that does not exist
strptime(s, format) ==
    LET checked(found) ==
            IF found = None THEN Raise("ValueError")
            ELSE IF found.Y < 1 \/ found.d > days_in_month(found.Y, found.m)
            THEN Raise("ValueError")
            ELSE Return(found)
    IN  checked(strptime_from(s, 1, format, [Y |-> 0, m |-> 0, d |-> 0]))

\* the loop over the formats, from format k on
RECURSIVE try_formats(_, _)
try_formats(value, k) ==
    IF k > Len(strptime_formats) THEN None
    ELSE LET parsed(dt) ==
                 IF dt.raised THEN try_formats(value, k + 1)
                 ELSE PyTuple(<<dt.value.Y, dt.value.m, dt.value.d>>)
         IN  parsed(strptime(strip(value), strptime_formats[k]))

\* _try_parse_date(value) of a str: re.match(r"(\d{4})-(\d{2})-(\d{2})")
\* at the start of value, then the formats
_try_parse_date(value) ==
    IF /\ DigitsAt(value, 1, 4) /\ Len(value) >= 5 /\ Char(value, 5) = "-"
       /\ DigitsAt(value, 6, 7) /\ Len(value) >= 8 /\ Char(value, 8) = "-"
       /\ DigitsAt(value, 9, 10)
    THEN PyTuple(<<int_of(SubSeq(value, 1, 4)), int_of(SubSeq(value, 6, 7)),
                   int_of(SubSeq(value, 9, 10))>>)
    ELSE try_formats(value, 1)

\* a < b of two (year, month, day) tuples, and the mutant that is a <= b
tuple_le(a, b) ==
    \/ a.v[1] < b.v[1]
    \/ (a.v[1] = b.v[1] /\ a.v[2] < b.v[2])
    \/ (a.v[1] = b.v[1] /\ a.v[2] = b.v[2] /\ a.v[3] <= b.v[3])

tuple_lt(a, b) ==
    \/ a.v[1] < b.v[1]
    \/ (a.v[1] = b.v[1] /\ a.v[2] < b.v[2])
    \/ (a.v[1] = b.v[1] /\ a.v[2] = b.v[2] /\ a.v[3] < b.v[3])

DueDateAfterIssueDateRule_validate(data, schema) ==
    LET date_str == dict_get(data, "date")
        due_date_str == dict_get(data, "due_date")
        compared(issue_date, due_date) ==
            IF issue_date = None \/ due_date = None THEN Return(<<>>)
            ELSE IF tuple_lt(due_date, issue_date)
            THEN Return(<<RuleFinding("due_date_after_issue_date", WARNING,
                            "Due date (" \o py_str(due_date_str)
                                \o ") is before issue date ("
                                \o py_str(date_str) \o ")",
                            PyStr("due_date"), F_0_1, TRUE, F_0_15)>>)
            ELSE Return(<<>>)
    IN  IF date_str = None \/ due_date_str = None THEN Return(<<>>)
        ELSE compared(_try_parse_date(py_str(date_str)),
                      _try_parse_date(py_str(due_date_str)))

\* value is not None and isinstance(value, (int, float)) and value < 0,
\* and the mutant that compares with <=
is_negative_or_zero(value) == value # None /\ IsNumber(value) /\ Cents(value) <= 0

is_negative(value) == value # None /\ IsNumber(value) /\ Cents(value) < 0

NegativeAmountsRule_validate(data, schema) ==
    LET amount_fields == IF issubclass(schema, InvoiceData)
                         THEN <<"total_amount", "subtotal", "tax_amount">>
                         ELSE <<"total", "subtotal", "tax">>
        negative(field_name) == is_negative(dict_get(data, field_name))
        finding(field_name) ==
            RuleFinding("no_negative_amounts", ERROR,
                        "Field '" \o field_name \o "' has negative value: "
                            \o py_str(dict_get(data, field_name)),
                        PyStr(field_name), F_0_15, TRUE, F_0_3)
    IN  Return(Comprehension(amount_fields, negative, finding))

\* AmountThresholdRule(threshold=100_000.0), in hundredths
threshold == 100000 * 100

AmountThresholdRule_validate(data, schema) ==
    LET total_field == IF issubclass(schema, InvoiceData) THEN "total_amount" ELSE "total"
        total == dict_get(data, total_field)
    IN  IF total # None /\ IsNumber(total) /\ Cents(total) > threshold
        THEN Return(<<RuleFinding("amount_threshold", WARNING,
                        "Total amount (" \o fmt_2f(Cents(total))
                            \o ") exceeds threshold (" \o fmt_2f(threshold) \o ")",
                        PyStr(total_field), F_0_05, TRUE, F_0_1)>>)
        ELSE Return(<<>>)

EmptyLineItemsRule_validate(data, schema) ==
    LET items == dict_get(data, items_key(data))
    IN  IF items # None /\ items.t = "list" /\ Len(items.v) = 0
        THEN Return(<<RuleFinding("line_items_not_empty", WARNING,
                        "'" \o items_key(data) \o "' is present but empty",
                        PyStr(items_key(data)), F_0_05, FALSE, F_0)>>)
        ELSE Return(<<>>)

\* RoundNumberRule(min_amount=1000.0), in hundredths
min_amount == 1000 * 100

\* total == int(total)
is_whole(total) == Cents(total) % 100 = 0

\* total == int(total) and int(total) % 1000 == 0, for a total that is not
\* negative: int() drops the hundredths
is_round(total) == Cents(total) % 100 = 0 /\ (Cents(total) \div 100) % 1000 = 0

RoundNumberRule_validate(data, schema) ==
    LET total_field == IF issubclass(schema, InvoiceData) THEN "total_amount" ELSE "total"
        total == dict_get(data, total_field)
    IN  IF total = None \/ ~IsNumber(total) THEN Return(<<>>)
        ELSE IF Cents(total) < min_amount THEN Return(<<>>)
        ELSE IF is_round(total)
        THEN Return(<<RuleFinding("round_number_anomaly", WARNING,
                        "Total amount (" \o fmt_2f(Cents(total))
                            \o ") is a suspiciously round number",
                        PyStr(total_field), F_0_05, TRUE, F_0_15)>>)
        ELSE Return(<<>>)

\* a == b of two values: numbers compare by value (50 == 50.0), every
\* other value only with a value of its own type
py_eq(a, b) ==
    IF IsDict(a) \/ IsDict(b) THEN a = b
    ELSE IF IsNumber(a) /\ IsNumber(b) THEN Cents(a) = Cents(b)
    ELSE a = b

\* hash(v) raises TypeError for a list and for a dict
Unhashable(v) == IsDict(v) \/ v.t = "list"

\* seen[key] = i of a dict whose keys are (name, amount) tuples: seen is
\* the sequence of its entries <<name, amount, i>> in insertion order
seen_index(seen, name, amount) ==
    LET hits == SelectSeq(seen, LAMBDA e : py_eq(e[1], name) /\ py_eq(e[2], amount))
    IN  IF hits = <<>> THEN None ELSE PyInt(hits[1][3])

\* "if key in seen", and the mutant that lets the current occurrence take
\* the place of the one remembered
seen_after_latest(seen, name, amount, i) ==
    SelectSeq(seen, LAMBDA e : ~(py_eq(e[1], name) /\ py_eq(e[2], amount)))
        \o <<<<name, amount, i>>>>

seen_after(seen, name, amount, i) ==
    IF seen_index(seen, name, amount) = None
    THEN Append(seen, <<name, amount, i>>) ELSE seen

\* for i, item in enumerate(items), from the item of index i (from 0) on
RECURSIVE DuplicateLineItem_from(_, _, _, _, _)
DuplicateLineItem_from(items, i, seen, found, key_name) ==
    IF i >= Len(items) THEN Return(found)
    ELSE LET item == items[i + 1]
         IN  IF ~IsDict(item)
             THEN DuplicateLineItem_from(items, i + 1, seen, found, key_name)
             ELSE LET name == dict_get(item, "name")
                      amount == dict_get(item, "amount")
                      first == seen_index(seen, name, amount)
                  IN  IF name = None /\ amount = None
                      THEN DuplicateLineItem_from(items, i + 1, seen, found, key_name)
                      ELSE IF Unhashable(name) \/ Unhashable(amount)
                      THEN Raise("TypeError")
                      ELSE DuplicateLineItem_from(items, i + 1,
                               seen_after(seen, name, amount, i),
                               IF first = None THEN found
                               ELSE Append(found,
                                      RuleFinding("duplicate_line_items", WARNING,
                                          "Duplicate line item: '" \o py_str(name)
                                              \o "' with amount " \o py_str(amount)
                                              \o " appears at positions " \o py_str(first)
                                              \o " and " \o NatStr(i),
                                          PyStr(key_name \o "[" \o NatStr(i) \o "]"),
                                          F_0_05, TRUE, F_0_2)),
                               key_name)

DuplicateLineItemRule_validate(data, schema) ==
    LET items == dict_get(data, items_key(data))
    IN  IF IsDict(items) \/ items.t # "list" \/ items.v = <<>> THEN Return(<<>>)
        ELSE DuplicateLineItem_from(items.v, 0, <<>>, <<>>, items_key(data))

\* ExtremeQuantityRule(max_quantity=10_000.0), in hundredths
max_quantity == 10000 * 100

\* quantity >= self.max_quantity
reaches(quantity, ceiling) == Cents(quantity) >= ceiling

\* quantity > self.max_quantity
exceeds_quantity(quantity, ceiling) == Cents(quantity) > ceiling

\* the findings of ExtremeQuantityRule for the items from position k on,
\* after those found before; enumerate() counts from 0
RECURSIVE ExtremeQuantity_from(_, _, _, _)
ExtremeQuantity_from(items, k, key, found) ==
    IF k > Len(items) THEN found
    ELSE LET item == items[k]
             quantity == dict_get(item, "quantity")
             item_name == IF "name" \in DOMAIN item THEN py_str(item["name"])
                          ELSE "item #" \o NatStr(k)
             field == PyStr(key \o "[" \o NatStr(k - 1) \o "].quantity")
         IN  IF ~IsDict(item) THEN ExtremeQuantity_from(items, k + 1, key, found)
             ELSE IF quantity = None \/ ~IsNumber(quantity)
             THEN ExtremeQuantity_from(items, k + 1, key, found)
             ELSE IF Cents(quantity) < 0
             THEN ExtremeQuantity_from(items, k + 1, key,
                     Append(found, RuleFinding("extreme_quantity", WARNING,
                         "Line item '" \o item_name \o "' has negative quantity: "
                             \o py_str(quantity),
                         field, F_0_1, TRUE, F_0_15)))
             ELSE IF exceeds_quantity(quantity, max_quantity)
             THEN ExtremeQuantity_from(items, k + 1, key,
                     Append(found, RuleFinding("extreme_quantity", WARNING,
                         "Line item '" \o item_name \o "' has extreme quantity: "
                             \o py_str(quantity) \o " (threshold: "
                             \o str_float(max_quantity) \o ")",
                         field, F_0_05, TRUE, F_0_15)))
             ELSE ExtremeQuantity_from(items, k + 1, key, found)

\* ExtremeQuantityRule.validate
ExtremeQuantityRule_validate(data, schema) ==
    LET items == dict_get(data, items_key(data))
    IN  IF items = None \/ IsDict(items) \/ items.t # "list" \/ items.v = <<>>
        THEN Return(<<>>)
        ELSE Return(ExtremeQuantity_from(items.v, 1, items_key(data), <<>>))

\* get_all_default_rules(): the registry, in order
get_all_default_rules ==
    << "LineItemsSumRule", "SubtotalTaxTotalRule", "LineItemMathRule",
       "TaxConsistencyRule",
       "DateFormatRule", "CurrencyCodeRule", "TaxIdFormatRule", "CardLastFourRule",
       "RequiredFieldsRule", "DueDateAfterIssueDateRule", "NegativeAmountsRule",
       "AmountThresholdRule", "EmptyLineItemsRule",
       "RoundNumberRule", "DuplicateLineItemRule", "ExtremeQuantityRule" >>

\* ------------------------------------------------------------------------
\* User rules: subclasses of BaseValidationRule written by callers.
\* _DummyRule and _CrashingRule are the two of the engine's tests; the
\* others cover what the rule contract leaves open: several findings per
\* rule, every severity, fraud signals, a weight without the flag, a schema
\* restriction, a result that depends on the record, a name shared with
\* another class, an applicability test that raises, a result that holds
\* something other than a RuleFinding.  InfoRule returns Info findings only.
\* ------------------------------------------------------------------------

UserRules == {"_DummyRule", "_CrashingRule", "RuleA", "RuleB", "RuleC",
              "BadAppliesRule", "BadFindingsRule"}

\* rule.name
rule_name(rule) ==
    CASE rule = "LineItemsSumRule" -> "line_items_sum_to_subtotal"
      [] rule = "SubtotalTaxTotalRule" -> "subtotal_plus_tax_equals_total"
      [] rule = "LineItemMathRule" -> "line_item_internal_math"
      [] rule = "TaxConsistencyRule" -> "tax_percentage_consistency"
      [] rule = "DateFormatRule" -> "date_format_valid"
      [] rule = "CurrencyCodeRule" -> "currency_code_valid"
      [] rule = "TaxIdFormatRule" -> "tax_id_format_valid"
      [] rule = "CardLastFourRule" -> "card_last_four_format"
      [] rule = "RequiredFieldsRule" -> "required_fields_present"
      [] rule = "DueDateAfterIssueDateRule" -> "due_date_after_issue_date"
      [] rule = "NegativeAmountsRule" -> "no_negative_amounts"
      [] rule = "AmountThresholdRule" -> "amount_threshold"
      [] rule = "EmptyLineItemsRule" -> "line_items_not_empty"
      [] rule = "RoundNumberRule" -> "round_number_anomaly"
      [] rule = "DuplicateLineItemRule" -> "duplicate_line_items"
      [] rule = "ExtremeQuantityRule" -> "extreme_quantity"
      [] rule = "_DummyRule" -> "dummy_rule"
      [] rule = "_CrashingRule" -> "crashing_rule"
      [] rule = "RuleA" -> "rule_a"
      [] rule = "RuleB" -> "rule_b"
      [] rule = "RuleC" -> "dummy_rule"
      [] rule = "BadAppliesRule" -> "bad_applies"
      [] rule = "BadFindingsRule" -> "bad_findings"
      [] rule = "InfoRule" -> "info_rule"

\* a rule that declares both shapes whatever its class
supported_schemas_both(rule) ==
    IF rule \in UserRules \/ rule = "InfoRule" THEN None ELSE BothShapes

\* rule.supported_schemas: None means every schema
supported_schemas(rule) ==
    CASE rule \in {"CurrencyCodeRule", "TaxIdFormatRule",
                   "DueDateAfterIssueDateRule", "RuleB"} -> PySet({InvoiceData})
      [] rule = "CardLastFourRule" -> PySet({ReceiptData})
      [] rule \in UserRules \ {"RuleB"} \/ rule = "InfoRule" -> None
      [] OTHER -> BothShapes

\* rule.applies_to(schema)
applies_to(rule, schema) ==
    IF rule = "BadAppliesRule" THEN Raise("RuntimeError")
    ELSE LET supported == supported_schemas(rule)
         IN  IF supported = None THEN Return(TRUE)
             ELSE Return(\E s \in supported.v : issubclass(schema, s))

\* rule.validate(data, schema) of the user rules
user_rule_validate(rule, data, schema) ==
    CASE rule = "_DummyRule" ->
            Return(<<RuleFinding3("dummy_rule", WARNING, "dummy warning")>>)
      [] rule = "_CrashingRule" -> Raise("RuntimeError")
      [] rule = "RuleA" ->
            Return(<<RuleFinding("rule_a", ERROR, "a1", None, F_0_15, TRUE, F_0_3),
                     RuleFinding("rule_a", WARNING, "a2", None, F_0_05, TRUE, F_0_1)>>)
      [] rule = "RuleB" ->
            Return(<<RuleFinding("rule_b", INFO, "b1", None, F_0_15, TRUE, F_0_1),
                     RuleFinding("rule_b", WARNING, "b2", None, F_0_15, TRUE, F_0_3)>>)
      [] rule = "RuleC" ->
            IF dict_get(data, "total_amount") = None
            THEN Return(<<RuleFinding("dummy_rule", WARNING, "c0", None,
                                      F_0_8, TRUE, F_0_1),
                          RuleFinding("dummy_rule", INFO, "c3", None,
                                      F_0, FALSE, F_0_5)>>)
            ELSE Return(<<RuleFinding("dummy_rule", WARNING, "c1", None,
                                      float_neg(F_0_25), FALSE, F_0_5),
                          RuleFinding("dummy_rule", INFO, "c2", None,
                                      F_0, TRUE, F_0)>>)
      [] rule = "BadFindingsRule" -> Return(<<None>>)
      [] rule = "InfoRule" ->
            IF dict_get(data, "total_amount") = None
            THEN Return(<<RuleFinding("info_rule", INFO, "i1", None, F_0_1, TRUE, F_0_3),
                          RuleFinding("info_rule", INFO, "i2", None, F_0_05, FALSE, F_0)>>)
            ELSE Return(<<RuleFinding("info_rule", INFO, "i3", None, F_0, FALSE, F_0)>>)

\* rule.validate(data, schema)
rule_validate(rule, data, schema) ==
    CASE rule = "LineItemsSumRule" -> LineItemsSumRule_validate(data, schema)
      [] rule = "SubtotalTaxTotalRule" -> SubtotalTaxTotalRule_validate(data, schema)
      [] rule = "LineItemMathRule" -> LineItemMathRule_validate(data, schema)
      [] rule = "TaxConsistencyRule" -> TaxConsistencyRule_validate(data, schema)
      [] rule = "DateFormatRule" -> DateFormatRule_validate(data, schema)
      [] rule = "CurrencyCodeRule" -> CurrencyCodeRule_validate(data, schema)
      [] rule = "TaxIdFormatRule" -> TaxIdFormatRule_validate(data, schema)
      [] rule = "CardLastFourRule" -> CardLastFourRule_validate(data, schema)
      [] rule = "RequiredFieldsRule" -> RequiredFieldsRule_validate(data, schema)
      [] rule = "DueDateAfterIssueDateRule" ->
            DueDateAfterIssueDateRule_validate(data, schema)
      [] rule = "NegativeAmountsRule" -> NegativeAmountsRule_validate(data, schema)
      [] rule = "AmountThresholdRule" -> AmountThresholdRule_validate(data, schema)
      [] rule = "EmptyLineItemsRule" -> EmptyLineItemsRule_validate(data, schema)
      [] rule = "RoundNumberRule" -> RoundNumberRule_validate(data, schema)
      [] rule = "DuplicateLineItemRule" -> DuplicateLineItemRule_validate(data, schema)
      [] rule = "ExtremeQuantityRule" -> ExtremeQuantityRule_validate(data, schema)
      [] rule \in UserRules \/ rule = "InfoRule" ->
            user_rule_validate(rule, data, schema)

\* the records the engine is asked to validate
EmptyRecord == [k \in {} |-> None]
NegativeTotal == [k \in {"total_amount"} |-> PyFloat(-50000)]
Records == {EmptyRecord, NegativeTotal}

\* ------------------------------------------------------------------------
\* ValidationEngine
\* ------------------------------------------------------------------------

\* most user rules an engine is given, by the constructor and add_rule together
MaxRules == 2

VARIABLES
    _rules,            \* self._rules
    pc,                \* where the validate call stands: idle, loop, done
    data, schema,      \* its arguments
    it,                \* the list object that "for rule in self._rules" walks
    i,                 \* the position of the list iterator
    all_findings,      \* its local all_findings
    rules_checked,     \* its local rules_checked
    result,            \* what the call gave its caller: a verdict or an exception
    registered,        \* history: the rules registered and not removed since
    last_removed       \* history: the name last removed and not added again

\* Calls of validate that several threads make on one engine, and a rule
\* called on its own; the sequential engine above leaves these alone.
VARIABLES
    calls,             \* per thread: where its validate call stands, its arguments,
                       \* its list iterator and what it returned
    frames,            \* per call frame: the locals all_findings and rules_checked
    run                \* a rule under test: the rule, its arguments, what it returned

vars == <<_rules, pc, data, schema, it, i, all_findings, rules_checked, result,
          compensated_sum, registered, last_removed, calls, frames, run>>

\* the threads that call validate
MaxCalls == 2
Callers == 1..MaxCalls

\* a thread outside validate, and the locals of a call not yet made
NoCall == [pc |-> "idle", data |-> <<>>, schema |-> InvoiceData, it |-> <<>>, i |-> 0,
           result |-> None]
NoLocals == [all_findings |-> <<>>, rules_checked |-> <<>>]

\* no thread is calling, and no rule is under test
NoCalls ==
    /\ calls = [t \in Callers |-> NoCall]
    /\ frames = [f \in Callers |-> NoLocals]
NoRun == run = None

\* [x for x in xs if keep(x)]
Filter(xs, keep(_)) == SelectSeq(xs, keep)

\* [f(x) for x in xs]
Map(xs, f(_)) == [k \in 1..Len(xs) |-> f(xs[k])]

\* the builtin sum() before Python 3.12: left to right, from the int 0
RECURSIVE sum_naive(_, _)
sum_naive(acc, xs) ==
    IF xs = <<>> THEN acc ELSE sum_naive(float_add(acc, Head(xs)), Tail(xs))

\* the builtin sum() from Python 3.12 on: Neumaier's compensated summation
RECURSIVE sum_neumaier(_, _, _)
sum_neumaier(f_result, c, xs) ==
    IF xs = <<>>
    THEN IF c.mag # MagZero THEN float_add(f_result, c) ELSE f_result
    ELSE LET x == Head(xs)
             x_larger == MagLess(f_result.mag, x.mag)
             added(t) ==
                 sum_neumaier(t,
                     float_add(c, float_add(float_sub(IF x_larger THEN x ELSE f_result, t),
                                            IF x_larger THEN f_result ELSE x)),
                     Tail(xs))
         IN  added(float_add(f_result, x))

py_sum(xs, compensated) ==
    IF compensated THEN sum_neumaier(F_0, F_0, xs) ELSE sum_naive(F_0, xs)

\* a fault: the bucket bounds taken inclusive
_calculate_fraud_risk_inclusive(fraud_findings, compensated) ==
    IF fraud_findings = <<>> THEN "clean"
    ELSE LET weight(f) == f.fraud_weight
             total_weight == py_min(F_1, py_sum(Map(fraud_findings, weight), compensated))
         IN  IF ~float_lt(F_0_01, total_weight) THEN "clean"
             ELSE IF ~float_lt(F_0_2, total_weight) THEN "low"
             ELSE IF ~float_lt(F_0_5, total_weight) THEN "medium"
             ELSE IF ~float_lt(F_0_8, total_weight) THEN "high"
             ELSE "critical"

\* ValidationEngine._calculate_fraud_risk
_calculate_fraud_risk(fraud_findings, compensated) ==
    IF fraud_findings = <<>> THEN "clean"
    ELSE LET weight(f) == f.fraud_weight
             risk(total_weight) ==
                 IF float_lt(total_weight, F_0_01) THEN "clean"
                 ELSE IF float_lt(total_weight, F_0_2) THEN "low"
                 ELSE IF float_lt(total_weight, F_0_5) THEN "medium"
                 ELSE IF float_lt(total_weight, F_0_8) THEN "high"
                 ELSE "critical"
         IN  risk(py_min(F_1, py_sum(Map(fraud_findings, weight), compensated)))

\* the loop "for f in findings: confidence -= f.confidence_impact"
RECURSIVE subtract_impacts(_, _)
subtract_impacts(confidence, findings) ==
    IF findings = <<>> THEN confidence
    ELSE subtract_impacts(float_sub(confidence, Head(findings).confidence_impact),
                          Tail(findings))

\* _build_result, line by line
errors_of(findings) ==
    Map(Filter(findings, LAMBDA f : f.severity = ERROR), LAMBDA f : f.message)

\* a fault: Info findings reported as warnings
warnings_of_with_info(findings) ==
    Map(Filter(findings, LAMBDA f : f.severity \in {WARNING, INFO}), LAMBDA f : f.message)

\* warnings = [f.message for f in findings if f.severity == RuleSeverity.WARNING]
warnings_of(findings) ==
    Map(Filter(findings, LAMBDA f : f.severity = WARNING), LAMBDA f : f.message)

\* a fault: the lower clamp forgotten
confidence_of_no_floor(findings) == py_min(F_1, subtract_impacts(F_1, findings))

confidence_of(findings) ==
    py_max(F_0, py_min(F_1, subtract_impacts(F_1, findings)))

\* a fault: warnings make the record invalid too
is_valid_of_strict(errors, warnings) == Len(errors) = 0 /\ Len(warnings) = 0

\* is_valid=len(errors) == 0
is_valid_of(errors, warnings) == Len(errors) = 0

\* a fault: the Info findings are left out of the fraud findings
fraud_findings_of_surfaced(findings) ==
    Filter(findings, LAMBDA f : f.is_fraud_signal /\ f.severity # INFO)

fraud_findings_of(findings) == Filter(findings, LAMBDA f : f.is_fraud_signal)

\* a fault: fraud_checked taken from the fraud findings
fraud_checked_of_findings(findings, checked) == Len(fraud_findings_of(findings)) > 0

\* fraud_checked = len(rules_checked) > 0
fraud_checked_of(findings, checked) == Len(checked) > 0

\* ValidationEngine._build_result; reading an attribute of something that is
\* not a RuleFinding raises AttributeError
_build_result(findings, checked, compensated) ==
    IF \E k \in 1..Len(findings) : ~IsRuleFinding(findings[k])
    THEN Raise("AttributeError")
    ELSE LET errors == errors_of(findings)
             warnings == warnings_of(findings)
             fraud_findings == fraud_findings_of(findings)
         IN  Return([is_valid |-> is_valid_of(errors, warnings),
                     confidence |-> confidence_of(findings),
                     errors |-> errors,
                     warnings |-> warnings,
                     fraud_checked |-> fraud_checked_of(findings, checked),
                     fraud_risk |-> _calculate_fraud_risk(fraud_findings, compensated),
                     fraud_reasons |-> Map(fraud_findings, LAMBDA f : f.message),
                     cost |-> F_0,
                     rules_checked |-> checked])

\* ValidationEngine.__init__(rules, include_defaults)
__init__(rules, include_defaults) ==
    (IF include_defaults THEN get_all_default_rules ELSE <<>>)
        \o (IF rules # None /\ rules.v # <<>> THEN rules.v ELSE <<>>)

\* the rules argument of the constructor: None or a list of user rules
RuleLists == UNION {[1..n -> UserRules] : n \in 0..MaxRules}
ConstructorRules == {None} \cup {PyList(l) : l \in RuleLists}

\* how many of the registered rules are user rules
UserCount(rules) == Len(SelectSeq(rules, LAMBDA r : r \in UserRules))

Init ==
    \E include_defaults \in BOOLEAN, rules \in ConstructorRules :
        /\ _rules = __init__(rules, include_defaults)
        /\ registered = (IF include_defaults THEN get_all_default_rules ELSE <<>>)
                            \o (IF rules = None THEN <<>> ELSE rules.v)
        /\ pc = "idle"
        /\ data = EmptyRecord
        /\ schema = InvoiceData
        /\ it = <<>>
        /\ i = 0
        /\ all_findings = <<>>
        /\ rules_checked = <<>>
        /\ result = None
        /\ compensated_sum \in BOOLEAN
        /\ last_removed = ""
        /\ NoCalls
        /\ NoRun

\* between two calls: the previous call has returned
Idle == pc \in {"idle", "done"}

ForgetCall ==
    /\ pc' = "idle"
    /\ it' = <<>>
    /\ i' = 0
    /\ all_findings' = <<>>
    /\ rules_checked' = <<>>
    /\ result' = None
    /\ data' = EmptyRecord
    /\ schema' = InvoiceData

\* a fault: the rule is put in front of the list
add_rule_in_front(rule) ==
    /\ Idle
    /\ UserCount(_rules) < MaxRules
    /\ _rules' = <<rule>> \o _rules
    /\ registered' = Append(registered, rule)
    /\ last_removed' = IF rule_name(rule) = last_removed THEN "" ELSE last_removed
    /\ ForgetCall
    /\ UNCHANGED <<compensated_sum, calls, frames, run>>

\* ValidationEngine.add_rule
add_rule(rule) ==
    /\ Idle
    /\ UserCount(_rules) < MaxRules
    /\ _rules' = Append(_rules, rule)
    /\ registered' = Append(registered, rule)
    /\ last_removed' = IF rule_name(rule) = last_removed THEN "" ELSE last_removed
    /\ ForgetCall
    /\ UNCHANGED <<compensated_sum, calls, frames, run>>

\* the list without the first rule of a name
RECURSIVE without_first(_, _)
without_first(rules, name) ==
    IF rules = <<>> THEN <<>>
    ELSE IF rule_name(Head(rules)) = name THEN Tail(rules)
    ELSE <<Head(rules)>> \o without_first(Tail(rules), name)

\* a fault: list.remove semantics, only the first rule of the name goes
remove_rule_first_only(name) ==
    /\ Idle
    /\ _rules' = without_first(_rules, name)
    /\ registered' = SelectSeq(registered, LAMBDA r : rule_name(r) # name)
    /\ last_removed' = name
    /\ ForgetCall
    /\ UNCHANGED <<compensated_sum, calls, frames, run>>

\* ValidationEngine.remove_rule
remove_rule(name) ==
    /\ Idle
    /\ _rules' = Filter(_rules, LAMBDA r : rule_name(r) # name)
    /\ registered' = SelectSeq(registered, LAMBDA r : rule_name(r) # name)
    /\ last_removed' = name
    /\ ForgetCall
    /\ UNCHANGED <<compensated_sum, calls, frames, run>>

\* ValidationEngine.validate, entry: the locals, and the iterator over self._rules
validate_begin(d, s) ==
    /\ Idle
    /\ pc' = "loop"
    /\ data' = d
    /\ schema' = s
    /\ it' = _rules
    /\ i' = 1
    /\ all_findings' = <<>>
    /\ rules_checked' = <<>>
    /\ result' = None
    /\ UNCHANGED <<_rules, compensated_sum, registered, last_removed, calls, frames, run>>

\* a fault: the except clause charges the failure to the record
skipped_finding_charged(rule) ==
    RuleFinding(rule_name(rule), WARNING,
                "Rule '" \o rule_name(rule) \o "' raised an exception and was skipped",
                None, F_0_05, FALSE, F_0)

\* the finding the except clause appends
skipped_finding(rule) ==
    RuleFinding3(rule_name(rule), WARNING,
                 "Rule '" \o rule_name(rule) \o "' raised an exception and was skipped")

\* a fault: the name is recorded after the rule has run, so not when it raises
checked_after_success(checked, rule, applies, outcome) ==
    IF applies /\ ~outcome.raised THEN Append(checked, rule_name(rule)) ELSE checked

\* the loop body's effect on rules_checked; applies is applies_to's answer
checked_after(checked, rule, applies, outcome) ==
    IF applies THEN Append(checked, rule_name(rule)) ELSE checked

\* the loop body's effect on all_findings: the try and its except clause
findings_after(findings, rule, applies, outcome) ==
    IF ~applies THEN findings
    ELSE IF outcome.raised THEN Append(findings, skipped_finding(rule))
    ELSE findings \o outcome.value

\* a fault: the amounts rule puts 0 in the place of the negative total
\* it has reported
data_after_clamped(d, rule, applies, s) ==
    IF applies /\ rule = "NegativeAmountsRule" /\ "total_amount" \in DOMAIN d
       /\ is_negative(d["total_amount"])
    THEN [d EXCEPT !["total_amount"] = PyInt(0)]
    ELSE d

\* the dict the caller passed, after rule.validate(data, schema): no rule
\* assigns to data, deletes from it or calls a method that changes it
data_after(d, rule, applies, s) == d

\* ValidationEngine.validate, one turn of the loop; an exception of
\* applies_to is outside the try and leaves the call
validate_rule ==
    /\ pc = "loop"
    /\ i <= Len(it)
    /\ LET rule == it[i]
           applies == applies_to(rule, schema)
           turn(outcome) ==
               /\ i' = i + 1
               /\ rules_checked' = checked_after(rules_checked, rule, applies.value, outcome)
               /\ all_findings' = findings_after(all_findings, rule, applies.value, outcome)
               /\ data' = data_after(data, rule, applies.value, schema)
               /\ UNCHANGED <<pc, result>>
       IN  IF applies.raised
           THEN /\ pc' = "done"
                /\ result' = applies
                /\ UNCHANGED <<i, all_findings, rules_checked, data>>
           ELSE turn(rule_validate(rule, data, schema))
    /\ UNCHANGED <<_rules, schema, it, compensated_sum, registered, last_removed,
                   calls, frames, run>>

\* ValidationEngine.validate, after the loop: return self._build_result(...)
validate_return ==
    /\ pc = "loop"
    /\ i > Len(it)
    /\ pc' = "done"
    /\ result' = _build_result(all_findings, rules_checked, compensated_sum)
    /\ UNCHANGED <<_rules, data, schema, it, i, all_findings, rules_checked,
                   compensated_sum, registered, last_removed, calls, frames, run>>

\* ValidationEngine.validate as one function of the rule list and its
\* arguments: the loop, then _build_result
RECURSIVE validate_loop(_, _, _, _, _, _)
validate_loop(rules, d, s, findings, checked, compensated) ==
    IF rules = <<>> THEN _build_result(findings, checked, compensated)
    ELSE LET rule == Head(rules)
             applies == applies_to(rule, s)
             turn(outcome, found) ==
                 validate_loop(Tail(rules), data_after(d, rule, applies.value, s), s,
                               found,
                               checked_after(checked, rule, applies.value, outcome),
                               compensated)
             \* the try and its except clause
             tried(outcome) ==
                 IF outcome.raised
                 THEN turn(outcome, Append(findings, skipped_finding(rule)))
                 ELSE turn(outcome, findings \o outcome.value)
         IN  IF applies.raised THEN applies
             ELSE IF ~applies.value THEN turn(None, findings)
             ELSE tried(rule_validate(rule, d, s))

validate(rules, d, s, compensated) == validate_loop(rules, d, s, <<>>, <<>>, compensated)

\* the names remove_rule is called with
RuleNames == {"dummy_rule", "rule_a", "required_fields_present", "no_such_rule"}

Next ==
    \/ \E rule \in UserRules : add_rule(rule)
    \/ \E name \in RuleNames : remove_rule(name)
    \/ \E d \in Records, s \in Schemas : validate_begin(d, s)
    \/ validate_rule
    \/ validate_return

Spec == Init /\ [][Next]_vars

\* ------------------------------------------------------------------------
\* What the specification says of a call, stated from the rules themselves
\* ------------------------------------------------------------------------

\* the call has returned a verdict
Returned == pc = "done" /\ ~result.raised
verdict == result.value

\* the rules the loop has been through
Processed == SubSeq(it, 1, i - 1)

Applicable(rule, s) == applies_to(rule, s) = Return(TRUE)
Fails(rule, d, s) == rule_validate(rule, d, s).raised

\* the synthetic finding of section 4.3, step 2
SyntheticWarning(name) ==
    [rule_name |-> name, severity |-> "warning",
     message |-> "Rule '" \o name \o "' raised an exception and was skipped",
     field_name |-> None, confidence_impact |-> F_0,
     is_fraud_signal |-> FALSE, fraud_weight |-> F_0]

\* what one rule contributes: nothing if it does not apply, the synthetic
\* warning if it fails, its findings otherwise
Contribution(rule, d, s) ==
    IF ~Applicable(rule, s) THEN <<>>
    ELSE IF Fails(rule, d, s) THEN <<SyntheticWarning(rule_name(rule))>>
    ELSE rule_validate(rule, d, s).value

RECURSIVE Contributions(_, _, _)
Contributions(rules, d, s) ==
    IF rules = <<>> THEN <<>>
    ELSE Contribution(Head(rules), d, s) \o Contributions(Tail(rules), d, s)

\* the rules of a list that apply and do not fail
RECURSIVE NonFailing(_, _, _)
NonFailing(rules, d, s) ==
    IF rules = <<>> THEN <<>>
    ELSE (IF Applicable(Head(rules), s) /\ ~Fails(Head(rules), d, s)
          THEN <<Head(rules)>> ELSE <<>>) \o NonFailing(Tail(rules), d, s)

\* the names of the rules of a list that apply, one per instance, in order
RECURSIVE ApplicableNames(_, _)
ApplicableNames(rules, s) ==
    IF rules = <<>> THEN <<>>
    ELSE (IF Applicable(Head(rules), s) THEN <<rule_name(Head(rules))>> ELSE <<>>)
             \o ApplicableNames(Tail(rules), s)

Range(seq) == {seq[k] : k \in 1..Len(seq)}

\* C1: validate returns a verdict whatever the registered rules do; no step
\* of it lets a failure escape to the caller.
C1_ValidateAlwaysReturnsVerdict == pc = "done" => ~result.raised

\* C2: a rule whose evaluation raises contributes exactly the one synthetic
\* Warning (no confidence impact, no fraud signal), the loop goes on with
\* the rules after it, and is_valid, confidence and fraud_risk of the verdict
\* are those of the findings of the non-failing rules alone.
C2_FailingRuleIsSkipped ==
    pc # "idle" =>
        /\ all_findings = Contributions(Processed, data, schema)
        /\ Returned =>
              LET alone == _build_result(
                               Contributions(NonFailing(it, data, schema), data, schema),
                               rules_checked, compensated_sum).value
              IN  /\ verdict.is_valid = alone.is_valid
                  /\ verdict.confidence = alone.confidence
                  /\ verdict.fraud_risk = alone.fraud_risk

\* a verdict of a call in which a rule failed and a later rule found an error
C2_Witness ==
    /\ Returned
    /\ \E k \in 1..Len(it) : \E m \in (k + 1)..Len(it) :
          /\ Applicable(it[k], schema) /\ Fails(it[k], data, schema)
          /\ Contribution(it[m], data, schema) # <<>>
          /\ ~verdict.is_valid
    /\ Len(verdict.warnings) > 0

\* C3: rules_checked is the names of the registered rules that apply to the
\* schema, in registration order, one per instance, a failing rule included;
\* a rule that does not apply is not listed and no finding carries its name.
C3_RulesCheckedAreTheApplicableRules ==
    Returned =>
        /\ verdict.rules_checked = ApplicableNames(_rules, schema)
        /\ \A k \in 1..Len(all_findings) :
              all_findings[k].rule_name \in Range(ApplicableNames(_rules, schema))

\* a verdict of an engine holding a failing rule and a rule that does not apply
C3_Witness ==
    /\ Returned
    /\ \E k \in 1..Len(_rules) : Applicable(_rules[k], schema) /\ Fails(_rules[k], data, schema)
    /\ \E k \in 1..Len(_rules) : ~Applicable(_rules[k], schema)
    /\ Len(verdict.rules_checked) >= 2

\* the fraud weights of the findings flagged as fraud signals, in order
RECURSIVE FlaggedWeights(_)
FlaggedWeights(findings) ==
    IF findings = <<>> THEN <<>>
    ELSE (IF Head(findings).is_fraud_signal THEN <<Head(findings).fraud_weight>> ELSE <<>>)
             \o FlaggedWeights(Tail(findings))

RECURSIVE FlaggedMessages(_)
FlaggedMessages(findings) ==
    IF findings = <<>> THEN <<>>
    ELSE (IF Head(findings).is_fraud_signal THEN <<Head(findings).message>> ELSE <<>>)
             \o FlaggedMessages(Tail(findings))

\* W of section 4.4: the sum, as the interpreter's sum() takes it, capped at 1.0
W == py_min(F_1, py_sum(FlaggedWeights(all_findings), compensated_sum))

Within(lo, x, hi) == ~float_lt(x, lo) /\ float_lt(x, hi)

\* C4: fraud_risk is the bucket of W, the capped sum of the weights of the
\* findings flagged as fraud signals: clean without such a finding or below
\* 0.01, low in [0.01, 0.2), medium in [0.2, 0.5), high in [0.5, 0.8),
\* critical from 0.8 on; a finding that is not flagged changes neither
\* fraud_risk nor fraud_reasons, whatever its weight.
C4_FraudRiskIsTheBucketOfW ==
    Returned =>
        /\ verdict.fraud_risk =
              IF FlaggedWeights(all_findings) = <<>> \/ float_lt(W, F_0_01) THEN "clean"
              ELSE IF Within(F_0_01, W, F_0_2) THEN "low"
              ELSE IF Within(F_0_2, W, F_0_5) THEN "medium"
              ELSE IF Within(F_0_5, W, F_0_8) THEN "high"
              ELSE "critical"
        /\ verdict.fraud_reasons = FlaggedMessages(all_findings)

\* a verdict on the bound of a bucket, with an unflagged finding that carries
\* a weight
C4_Witness ==
    /\ Returned
    /\ W = F_0_5
    /\ verdict.fraud_risk = "high"
    /\ \E k \in 1..Len(all_findings) :
          ~all_findings[k].is_fraud_signal /\ all_findings[k].fraud_weight # F_0

\* the exact sum of two floats: no rounding
exact_add(x, y) ==
    IF x.neg = y.neg THEN Float(x.neg, MagAdd(x.mag, y.mag))
    ELSE IF MagLess(x.mag, y.mag) THEN Float(y.neg, MagSub(y.mag, x.mag))
    ELSE Float(x.neg, MagSub(x.mag, y.mag))

\* the sum of the confidence impacts of all findings, as a real number
RECURSIVE ImpactSum(_)
ImpactSum(findings) ==
    IF findings = <<>> THEN F_0
    ELSE exact_add(Head(findings).confidence_impact, ImpactSum(Tail(findings)))

Clamp01(x) == IF x.neg THEN F_0 ELSE IF float_lt(F_1, x) THEN F_1 ELSE x

\* the rounding a chain of binary64 subtractions below 4.0 can add up to
Rounding == Float(FALSE, <<0, 2^7>>)

Distance(x, y) == Float(FALSE, exact_add(x, float_neg(y)).mag)

\* C5: confidence is 1.0 minus the sum of the confidence impacts of all
\* findings, clamped once at the end to [0, 1] (as binary64 arithmetic
\* takes it: impact by impact, within rounding of the real value); it is
\* within [0, 1], and exactly 1.0 when no finding has a nonzero impact.
C5_ConfidenceIsOneMinusImpacts ==
    Returned =>
        /\ verdict.confidence = Clamp01(subtract_impacts(F_1, all_findings))
        /\ ~float_lt(Rounding, Distance(verdict.confidence,
                 Clamp01(exact_add(F_1, float_neg(ImpactSum(all_findings))))))
        /\ ~float_lt(verdict.confidence, F_0) /\ ~float_lt(F_1, verdict.confidence)
        /\ (\A k \in 1..Len(all_findings) : all_findings[k].confidence_impact = F_0)
              => verdict.confidence = F_1

\* a verdict whose impacts add up to more than 1.0
C5_Witness ==
    /\ Returned
    /\ float_lt(F_1, ImpactSum(all_findings))
    /\ verdict.confidence = F_0
    /\ Len(all_findings) >= 3

\* C6: is_valid holds exactly when errors is empty, which is exactly when no
\* finding has severity Error; warnings, Info findings, fraud signals and
\* rule failures do not make the record invalid.
C6_ValidIffNoError ==
    Returned =>
        /\ verdict.is_valid <=> verdict.errors = <<>>
        /\ verdict.errors = <<>> <=>
              \A k \in 1..Len(all_findings) : all_findings[k].severity # "error"

\* a valid verdict with a warning, an Info finding, a fraud signal and a
\* failed rule
C6_Witness ==
    /\ Returned
    /\ verdict.is_valid
    /\ verdict.warnings # <<>>
    /\ verdict.fraud_reasons # <<>>
    /\ \E k \in 1..Len(all_findings) : all_findings[k].severity = "info"
    /\ \E k \in 1..Len(it) : Applicable(it[k], schema) /\ Fails(it[k], data, schema)

\* the names of the rules of a list
Names(rules) == {rule_name(rules[k]) : k \in 1..Len(rules)}

\* a list without the rules of a name, the others in their order
RECURSIVE WithoutName(_, _)
WithoutName(rules, name) ==
    IF rules = <<>> THEN <<>>
    ELSE (IF rule_name(Head(rules)) = name THEN <<>> ELSE <<Head(rules)>>)
             \o WithoutName(Tail(rules), name)

\* what a step that is remove_rule(name) does to the rule list
RemovalStep(name) ==
    remove_rule(name) =>
        /\ name \notin Names(_rules')
        /\ _rules' = WithoutName(_rules, name)
        /\ name \notin Names(_rules) => _rules' = _rules
        /\ pc' = "idle" /\ result' = None

\* while a name stays removed, no rule has it and no call reports it
RemovedStaysOut ==
    last_removed # "" =>
        /\ last_removed \notin Names(_rules)
        /\ Returned =>
              /\ last_removed \notin Range(verdict.rules_checked)
              /\ \A k \in 1..Len(all_findings) : all_findings[k].rule_name # last_removed

\* C7: remove_rule(name) leaves no rule of that name, duplicates included,
\* and the other rules in their order; until a rule of that name is added
\* again no validate lists the name in rules_checked or collects a finding
\* of it; removing again, or removing a name that is not registered,
\* changes nothing and does not fail.
C7_RemoveRuleRemovesEveryRuleOfTheName ==
    /\ [](RemovedStaysOut)
    /\ [][\A name \in RuleNames : RemovalStep(name)]_vars

\* a verdict of an engine that still holds rules after a removal, on a
\* schema the rules of the removed name apply to
C7_Witness ==
    /\ Returned
    /\ last_removed = "dummy_rule"
    /\ Len(verdict.rules_checked) >= 2
    /\ \E k \in 1..Len(_rules) : _rules[k] \in UserRules

\* C8: the rule list is the defaults (when included) in registry order, then
\* the constructor's rules, then the added rules in call order, without the
\* rules of removed names; validate goes through the rules and fills
\* rules_checked in that order, and a rule registered twice is evaluated
\* twice and listed twice.
C8_RegistrationOrderIsEvaluationOrder ==
    /\ _rules = registered
    /\ pc # "idle" =>
          /\ it = registered
          /\ rules_checked = ApplicableNames(Processed, schema)
    /\ Returned =>
          /\ verdict.rules_checked = ApplicableNames(registered, schema)
          /\ all_findings = Contributions(registered, data, schema)

\* a verdict of an engine with the defaults and one rule registered twice,
\* after them: two audit entries, and its findings twice
C8_Witness ==
    /\ Returned
    /\ Len(_rules) = Len(get_all_default_rules) + 2
    /\ SubSeq(_rules, 1, Len(get_all_default_rules)) = get_all_default_rules
    /\ _rules[Len(_rules)] = "_DummyRule" /\ _rules[Len(_rules) - 1] = "_DummyRule"
    /\ Len(verdict.rules_checked) > 2 /\ Len(verdict.warnings) >= 2
    /\ SubSeq(verdict.rules_checked, Len(verdict.rules_checked) - 1,
              Len(verdict.rules_checked)) = <<"dummy_rule", "dummy_rule">>
    /\ SubSeq(verdict.warnings, Len(verdict.warnings) - 1, Len(verdict.warnings))
           = <<"dummy warning", "dummy warning">>

\* the messages of the findings of one severity, in order
RECURSIVE MessagesOf(_, _)
MessagesOf(findings, severity) ==
    IF findings = <<>> THEN <<>>
    ELSE (IF Head(findings).severity = severity THEN <<Head(findings).message>> ELSE <<>>)
             \o MessagesOf(Tail(findings), severity)

\* C9: errors, warnings and fraud_reasons are the messages of the Error
\* findings, of the Warning findings and of the findings flagged as fraud
\* signals, each in the order the findings were collected (rule by rule,
\* and within a rule as emitted); an Info finding is in neither errors nor
\* warnings.
C9_MessageListsFollowCollectionOrder ==
    Returned =>
        LET collected == Contributions(it, data, schema)
        IN  /\ verdict.errors = MessagesOf(collected, "error")
            /\ verdict.warnings = MessagesOf(collected, "warning")
            /\ verdict.fraud_reasons = FlaggedMessages(collected)
            /\ \A k \in 1..Len(collected) :
                  collected[k].severity = "info" =>
                      collected[k].message \notin
                          Range(verdict.errors) \cup Range(verdict.warnings)

\* a verdict with two errors, two warnings and two fraud reasons from more
\* than one rule, and an Info finding
C9_Witness ==
    /\ Returned
    /\ Len(verdict.errors) >= 1
    /\ Len(verdict.warnings) >= 2
    /\ Len(verdict.fraud_reasons) >= 2
    /\ \E k \in 1..Len(all_findings) : all_findings[k].severity = "info"
    /\ \E j, k \in 1..Len(all_findings) : all_findings[j].rule_name # all_findings[k].rule_name

\* a list with two of its entries exchanged
Swap(seq, j, k) ==
    [n \in 1..Len(seq) |-> IF n = j THEN seq[k] ELSE IF n = k THEN seq[j] ELSE seq[n]]

\* the entries of a list with their multiplicities
BagOf(seq) == [x \in Range(seq) |-> Cardinality({n \in 1..Len(seq) : seq[n] = x})]

\* two verdicts that differ at most in the order of their lists
SameUpToOrder(v, w) ==
    /\ v.is_valid = w.is_valid
    /\ v.confidence = w.confidence
    /\ v.fraud_risk = w.fraud_risk
    /\ BagOf(v.errors) = BagOf(w.errors)
    /\ BagOf(v.warnings) = BagOf(w.warnings)
    /\ BagOf(v.fraud_reasons) = BagOf(w.fraud_reasons)

\* C10: an engine holding the same rules in another order gives, on the
\* same record, a verdict with the same is_valid, confidence and fraud_risk
\* and the same errors, warnings and fraud_reasons as multisets.
C10_RuleOrderDoesNotChangeTheVerdict ==
    Returned =>
        \A j, k \in 1..Len(it) :
            LET other == validate(Swap(it, j, k), data, schema, compensated_sum)
            IN  ~other.raised /\ SameUpToOrder(verdict, other.value)

\* the stepwise call and the function agree
ValidateIsTheLoop == pc = "done" => result = validate(it, data, schema, compensated_sum)

\* the verdict of a call that no rule took part in
EmptyVerdict ==
    [is_valid |-> TRUE, confidence |-> F_1, errors |-> <<>>, warnings |-> <<>>,
     fraud_checked |-> FALSE, fraud_risk |-> "clean", fraud_reasons |-> <<>>,
     cost |-> F_0, rules_checked |-> <<>>]

\* C11: fraud_checked holds exactly when rules_checked is not empty, that
\* is when some registered rule applies to the schema, whether or not a
\* finding was produced; when no registered rule applies (or there is no
\* rule) the verdict is valid, of confidence 1.0, clean, not fraud-checked,
\* and all its lists are empty.
C11_FraudCheckedIffSomeRuleApplied ==
    Returned =>
        LET some_applies == \E k \in 1..Len(_rules) : Applicable(_rules[k], schema)
        IN  /\ verdict.fraud_checked <=> verdict.rules_checked # <<>>
            /\ verdict.rules_checked # <<>> <=> some_applies
            /\ ~some_applies => verdict = EmptyVerdict

\* a verdict of an engine that holds rules, none of which applies
C11_Witness ==
    /\ Returned
    /\ Len(_rules) >= Len(get_all_default_rules)
    /\ \A k \in 1..Len(_rules) : ~Applicable(_rules[k], schema)
    /\ ~verdict.fraud_checked

\* ------------------------------------------------------------------------
\* validate called by several threads on one engine whose rule list nobody
\* changes meanwhile.  The interpreter runs the threads' steps in any order;
\* a step is one turn of a call's loop.
\* ------------------------------------------------------------------------

\* the engines the threads share: user rules only, among them one whose
\* findings depend on the record, one restricted to a schema, one that raises
SharedRules == {"RuleB", "RuleC", "_CrashingRule"}
SharedEngines == UNION {[1..n -> SharedRules] : n \in 0..MaxRules}
SharedSchemas == {InvoiceData, ReceiptData}

\* sequential part of the state, untouched by the threads
SequentialIdle ==
    /\ pc = "idle" /\ data = EmptyRecord /\ schema = InvoiceData /\ it = <<>> /\ i = 0
    /\ all_findings = <<>> /\ rules_checked = <<>> /\ result = None
    /\ last_removed = ""

ConcurrentInit ==
    /\ _rules \in SharedEngines
    /\ registered = _rules
    /\ compensated_sum \in BOOLEAN
    /\ SequentialIdle
    /\ NoCalls
    /\ NoRun

\* a fault: all_findings and rules_checked kept on the engine, one pair for
\* all calls
frame_of_engine(t) == 1

\* all_findings and rules_checked are locals: every call has its own
frame_of(t) == t

\* thread t enters validate(d, s)
concurrent_begin(t, d, s) ==
    /\ calls[t].pc \in {"idle", "done"}
    /\ calls' = [calls EXCEPT ![t] = [pc |-> "loop", data |-> d, schema |-> s,
                                      it |-> _rules, i |-> 1, result |-> None]]
    /\ frames' = [frames EXCEPT ![frame_of(t)] = NoLocals]
    /\ UNCHANGED <<_rules, pc, data, schema, it, i, all_findings, rules_checked, result,
                   compensated_sum, registered, last_removed, run>>

\* thread t takes one turn of the loop
concurrent_rule(t) ==
    /\ calls[t].pc = "loop"
    /\ calls[t].i <= Len(calls[t].it)
    /\ LET call == calls[t]
           locals == frames[frame_of(t)]
           rule == call.it[call.i]
           applies == applies_to(rule, call.schema)
           turn(outcome) ==
               /\ calls' = [calls EXCEPT ![t].i = call.i + 1,
                                      ![t].data = data_after(call.data, rule,
                                                             applies.value, call.schema)]
               /\ frames' = [frames EXCEPT ![frame_of(t)] =
                      [all_findings |-> findings_after(locals.all_findings, rule,
                                                       applies.value, outcome),
                       rules_checked |-> checked_after(locals.rules_checked, rule,
                                                       applies.value, outcome)]]
       IN  IF applies.raised
           THEN /\ calls' = [calls EXCEPT ![t].pc = "done", ![t].result = applies]
                /\ UNCHANGED frames
           ELSE turn(rule_validate(rule, call.data, call.schema))
    /\ UNCHANGED <<_rules, pc, data, schema, it, i, all_findings, rules_checked, result,
                   compensated_sum, registered, last_removed, run>>

\* thread t leaves the loop and returns self._build_result(...)
concurrent_return(t) ==
    /\ calls[t].pc = "loop"
    /\ calls[t].i > Len(calls[t].it)
    /\ calls' = [calls EXCEPT ![t].pc = "done",
                              ![t].result = _build_result(
                                   frames[frame_of(t)].all_findings,
                                   frames[frame_of(t)].rules_checked, compensated_sum)]
    /\ UNCHANGED <<_rules, pc, data, schema, it, i, all_findings, rules_checked, result,
                   compensated_sum, registered, last_removed, frames, run>>

ConcurrentNext ==
    \/ \E t \in Callers, d \in Records, s \in SharedSchemas : concurrent_begin(t, d, s)
    \/ \E t \in Callers : concurrent_rule(t)
    \/ \E t \in Callers : concurrent_return(t)

ConcurrentSpec == ConcurrentInit /\ [][ConcurrentNext]_vars

\* C12: whatever the interleaving of the calls that run on one engine, with
\* no add_rule or remove_rule meanwhile, each call returns the verdict it
\* would return alone: nothing in it comes from another call's record.
C12_ConcurrentCallsAreIndependent ==
    \A t \in Callers :
        calls[t].pc = "done" =>
            calls[t].result = validate(_rules, calls[t].data, calls[t].schema,
                                       compensated_sum)

\* a call has returned while another, on another record and with other
\* findings so far, is in the middle of its loop
C12_Witness ==
    \E t, u \in Callers :
        /\ calls[t].pc = "done" /\ ~calls[t].result.raised
        /\ calls[t].result.value.warnings # <<>>
        /\ calls[u].pc = "loop" /\ calls[u].i = 2 /\ Len(calls[u].it) >= 2
        /\ calls[u].data # calls[t].data
        /\ frames[frame_of(u)].all_findings # <<>>
        /\ frames[frame_of(u)].all_findings # frames[frame_of(t)].all_findings

\* ------------------------------------------------------------------------
\* Two calls in a row: ValidationEngine() with the default rules validates
\* a record, and then the same dict again under the same schema, with no
\* add_rule or remove_rule in between.  run keeps the verdict of the
\* first call and the arguments as they were passed.
\* ------------------------------------------------------------------------

\* records the default rules read: nothing, a negative total, amounts
\* that add up, amounts that do not, an empty list of line items
RepeatRecords ==
    Records \cup
    {[subtotal |-> PyFloat(1000), tax_amount |-> PyFloat(200),
      total_amount |-> PyFloat(1200), invoice_number |-> PyStr("INV-1")],
     [subtotal |-> PyFloat(1000), tax |-> PyFloat(200), total |-> PyFloat(1500),
      total_amount |-> PyFloat(-50000)],
     [line_items |-> PyList(<<>>), total_amount |-> PyInt(200000),
      vendor_name |-> PyStr("  ")]}

RepeatInit ==
    /\ _rules = __init__(None, TRUE)
    /\ registered = get_all_default_rules
    /\ compensated_sum \in BOOLEAN
    /\ SequentialIdle
    /\ NoCalls
    /\ NoRun

\* the first call: engine.validate(d, s)
first_call(d, s) == pc = "idle" /\ run = None /\ validate_begin(d, s)

\* the second call, after the first has returned: engine.validate with
\* the same dict, as the first call left it, and the same schema
second_call ==
    /\ pc = "done"
    /\ run = None
    /\ run' = [first |-> result, rules |-> _rules]
    /\ pc' = "loop"
    /\ it' = _rules
    /\ i' = 1
    /\ all_findings' = <<>>
    /\ rules_checked' = <<>>
    /\ result' = None
    /\ UNCHANGED <<_rules, data, schema, compensated_sum, registered, last_removed,
                   calls, frames>>

RepeatNext ==
    \/ \E d \in RepeatRecords, s \in Schemas : first_call(d, s)
    \/ validate_rule
    \/ validate_return
    \/ second_call

RepeatSpec == RepeatInit /\ [][RepeatNext]_vars

\* a step of a call in progress leaves the rule list and the dict alone
CallLeavesInputsAlone == pc = "loop" => _rules' = _rules /\ data' = data

\* the second call has returned
Repeated == pc = "done" /\ run # None

MaxItems == 2

RuleInit(rule, records, schemas) ==
    /\ run \in [rule : {rule}, data : records, schema : schemas,
                outcome : {None}, result : {None}]
    /\ compensated_sum \in BOOLEAN
    /\ _rules = <<rule>>
    /\ registered = <<rule>>
    /\ SequentialIdle
    /\ NoCalls

\* findings = rule.validate(data, schema)
rule_call ==
    /\ run.outcome = None
    /\ run' = [run EXCEPT !.outcome = rule_validate(run.rule, run.data, run.schema)]
    /\ UNCHANGED <<_rules, pc, data, schema, it, i, all_findings, rules_checked, result,
                   compensated_sum, registered, last_removed, calls, frames>>

\* result = engine.validate(data, schema)
engine_call ==
    /\ run.result = None
    /\ run' = [run EXCEPT !.result = validate(_rules, run.data, run.schema, compensated_sum)]
    /\ UNCHANGED <<_rules, pc, data, schema, it, i, all_findings, rules_checked, result,
                   compensated_sum, registered, last_removed, calls, frames>>

RuleNext == rule_call \/ engine_call

\* sequences over a set, up to a length
SeqsUpTo(S, n) == UNION {[1..k -> S] : k \in 0..n}

\* dicts with the given keys absent or taking the given values
RECURSIVE Dicts(_, _)
Dicts(keys, values) ==
    IF keys = <<>> THEN {<<>>}
    ELSE LET rest == Dicts(Tail(keys), values)
             k == Head(keys)
         IN  rest \cup {[x \in DOMAIN d \cup {k} |-> IF x = k THEN v ELSE d[x]] :
                            d \in rest, v \in values[k]}

\* a dict with one more key
With(d, k, v) == [x \in DOMAIN d \cup {k} |-> IF x = k THEN v ELSE d[x]]

\* the rule has been called and has returned its findings
Called == run # None /\ run.outcome # None /\ ~run.outcome.raised
findings == run.outcome.value

\* the line items for the sum of amounts: amounts at the bounds of the
\* tiers, an int, a null amount, an item without amount, an item that is
\* not a dict
SumItems ==
    {[amount |-> PyFloat(2)], [amount |-> PyFloat(5)], [amount |-> PyInt(1)],
     [amount |-> PyFloat(10)], [amount |-> None], [name |-> PyStr("Widget")],
     PyStr("Widget")}
SumSubtotals == {PyInt(0), PyFloat(3), PyFloat(8), PyFloat(99999)}

LineItemsSumRecords ==
    LET lists == {PyList(l) : l \in SeqsUpTo(SumItems, MaxItems)}
    IN  UNION {Dicts(<<key, "subtotal">>, [x \in {key, "subtotal"} |->
                       IF x = "subtotal" THEN SumSubtotals \cup {None}
                       ELSE lists \cup {None}]) : key \in {"line_items", "items"}}

LineItemsSumSpec ==
    RuleInit("LineItemsSumRule", LineItemsSumRecords, {InvoiceData, ReceiptData})
        /\ [][RuleNext]_vars

\* the amounts of the line items that are dicts, a missing or null amount
\* counting for 0
RECURSIVE ItemAmounts(_)
ItemAmounts(items) ==
    IF items = <<>> THEN <<>>
    ELSE (IF ~IsDict(Head(items)) THEN <<>>
          ELSE IF "amount" \notin DOMAIN Head(items) \/ Head(items)["amount"] = None
          THEN <<PyInt(0)>>
          ELSE <<Head(items)["amount"]>>) \o ItemAmounts(Tail(items))

\* the line-item list of a record, under the name in use
ItemsOf(d) ==
    IF "line_items" \in DOMAIN d THEN d["line_items"]
    ELSE IF "items" \in DOMAIN d THEN d["items"] ELSE None

FieldOf(d, k) == IF k \in DOMAIN d THEN d[k] ELSE None

\* |sum of the line-item amounts - subtotal|, as binary64 computes it
SumDiff(d) ==
    double_abs(double_sub(
        sum_numbers(D_0, D_0, FALSE, ItemAmounts(ItemsOf(d).v), compensated_sum),
        to_double(d["subtotal"])))

\* the one finding of a tier of the arithmetic rules
IsTierFinding(f, severity, impact, fraud, weight) ==
    /\ f.severity = severity
    /\ f.confidence_impact = impact
    /\ f.is_fraud_signal = fraud
    /\ f.fraud_weight = weight

\* C14: with line items and subtotal both present LineItemsSumRule takes
\* diff = |sum of the amounts - subtotal| (in binary64, as the interpreter
\* computes it) and emits nothing if diff <= 0.02, one Warning of impact
\* 0.05 and no fraud signal if 0.02 < diff <= 1.0, one Error of impact 0.15
\* and fraud weight 0.2 if diff > 1.0; with the list or the subtotal absent
\* it emits nothing.
C14_LineItemsSumTiers ==
    (run # None /\ run.outcome # None) =>
        /\ ~run.outcome.raised
        /\ IF ItemsOf(run.data) = None \/ FieldOf(run.data, "subtotal") = None
           THEN findings = <<>>
           ELSE LET diff == SumDiff(run.data)
                IN  IF ~double_lt(double_of_cents(2), diff) THEN findings = <<>>
                    ELSE /\ Len(findings) = 1
                         /\ IF ~double_lt(double_of_cents(100), diff)
                            THEN IsTierFinding(findings[1], "warning", F_0_05, FALSE, F_0)
                            ELSE IsTierFinding(findings[1], "error", F_0_15, TRUE, F_0_2)

\* the rule has returned nothing for a record whose amounts and subtotal
\* differ by the tolerance exactly
C14_Witness ==
    /\ Called
    /\ ItemsOf(run.data) # None /\ FieldOf(run.data, "subtotal") # None
    /\ SumDiff(run.data) = double_of_cents(2)
    /\ findings = <<>>

\* records for subtotal + tax - discount = total, under the names of either
\* shape, a discount among them
TotalValues(tax_key, total_key) ==
    [x \in {"subtotal", tax_key, total_key, "discount"} |->
        CASE x = "subtotal" -> {PyFloat(5), PyFloat(1000)}
          [] x = tax_key -> {PyFloat(0), PyFloat(100)}
          [] x = total_key -> {PyFloat(3), PyFloat(1000), PyFloat(1100), PyInt(12)}
          [] x = "discount" -> {PyFloat(100), PyFloat(2), None}]

SubtotalTaxTotalRecords ==
    Dicts(<<"subtotal", "tax_amount", "total_amount", "discount">>,
          TotalValues("tax_amount", "total_amount"))
        \cup Dicts(<<"subtotal", "tax", "total", "discount">>, TotalValues("tax", "total"))

SubtotalTaxTotalSpec ==
    RuleInit("SubtotalTaxTotalRule", SubtotalTaxTotalRecords, {InvoiceData, ReceiptData})
        /\ [][RuleNext]_vars

\* a field counted as 0 when it is absent or null
OrZero(d, k) == IF FieldOf(d, k) = None THEN D_0 ELSE to_double(d[k])

\* |subtotal + tax - discount - total| under the names of the shape, as
\* binary64 computes it
TotalDiff(d, s) ==
    LET invoice == s = InvoiceData
        tax == OrZero(d, IF invoice THEN "tax_amount" ELSE "tax")
        discount == IF invoice THEN OrZero(d, "discount") ELSE D_0
        total == to_double(d[IF invoice THEN "total_amount" ELSE "total"])
    IN  double_abs(double_sub(
            double_sub(double_add(to_double(d["subtotal"]), tax), discount), total))

\* C15: with subtotal and total both present SubtotalTaxTotalRule takes
\* diff = |subtotal + tax - discount - total| (in binary64), an absent tax
\* counting for 0, the discount read from an invoice (absent: 0) and 0 for a
\* receipt, and emits nothing if diff <= 0.02, one Warning (impact 0.05, no
\* fraud signal) if 0.02 < diff <= 1.0, one Error (impact 0.15, fraud weight
\* 0.25) if diff > 1.0; with subtotal or total absent it emits nothing.
C15_SubtotalTaxTotalTiers ==
    (run # None /\ run.outcome # None) =>
        /\ ~run.outcome.raised
        /\ IF FieldOf(run.data, "subtotal") = None
              \/ FieldOf(run.data, IF run.schema = InvoiceData
                                   THEN "total_amount" ELSE "total") = None
           THEN findings = <<>>
           ELSE LET diff == TotalDiff(run.data, run.schema)
                IN  IF ~double_lt(double_of_cents(2), diff) THEN findings = <<>>
                    ELSE /\ Len(findings) = 1
                         /\ IF ~double_lt(double_of_cents(100), diff)
                            THEN IsTierFinding(findings[1], "warning", F_0_05, FALSE, F_0)
                            ELSE IsTierFinding(findings[1], "error", F_0_15, TRUE, F_0_25)

\* the rule has returned nothing for a balanced receipt that carries a
\* discount all the same
C15_Witness ==
    /\ Called
    /\ run.schema = ReceiptData
    /\ FieldOf(run.data, "discount") = PyFloat(100)
    /\ FieldOf(run.data, "tax") = None
    /\ FieldOf(run.data, "subtotal") = PyFloat(1000)
    /\ FieldOf(run.data, "total") = PyFloat(1000)
    /\ findings = <<>>

\* line items for quantity x unit price = amount: a match, a mismatch, a
\* difference of the tolerance exactly, a unit price of 0, a quantity of 0,
\* a null quantity, an item that is not a dict
MathItems ==
    {[quantity |-> PyInt(2), unit_price_with_taxes |-> PyFloat(5), amount |-> PyFloat(10)],
     [quantity |-> PyInt(2), unit_price_with_taxes |-> PyFloat(5), amount |-> PyFloat(13),
      name |-> PyStr("Widget")],
     [quantity |-> PyInt(1), unit_price_without_taxes |-> PyFloat(2), amount |-> PyInt(0)],
     [quantity |-> PyInt(2), unit_price_with_taxes |-> PyFloat(0), amount |-> PyFloat(50)],
     [quantity |-> PyInt(0), unit_price_with_taxes |-> PyFloat(5), amount |-> PyFloat(10)],
     [quantity |-> None, unit_price_with_taxes |-> PyFloat(5), amount |-> PyFloat(13)],
     PyStr("Widget")}

LineItemMathRecords ==
    {<<>>} \cup UNION {{[x \in {key} |-> PyList(l)] : l \in SeqsUpTo(MathItems, MaxItems)} :
                          key \in {"line_items", "items"}}

LineItemMathSpec ==
    RuleInit("LineItemMathRule", LineItemMathRecords, {InvoiceData, ReceiptData})
        /\ [][RuleNext]_vars

\* the unit price of an item: the one with taxes if it is there, the one
\* without otherwise
UnitPriceOf(item) ==
    IF FieldOf(item, "unit_price_with_taxes") # None THEN item["unit_price_with_taxes"]
    ELSE FieldOf(item, "unit_price_without_taxes")

\* quantity, a unit price and amount are there (0 is a value), and
\* |quantity x unit price - amount| is above the tolerance
Mismatching(item) ==
    /\ IsDict(item)
    /\ FieldOf(item, "quantity") # None
    /\ UnitPriceOf(item) # None
    /\ FieldOf(item, "amount") # None
    /\ double_lt(double_of_cents(2),
                 double_abs(double_sub(
                     double_mul(to_double(item["quantity"]), to_double(UnitPriceOf(item))),
                     to_double(item["amount"]))))

\* C16: LineItemMathRule emits one Warning of impact 0.05 and no fraud
\* signal for every line item that has quantity, a unit price and amount
\* (0 counting as a value) and whose |quantity x unit price - amount| is
\* above 0.02, and nothing for the other items; never an Error.
C16_LineItemMathPerItem ==
    (run # None /\ run.outcome # None) =>
        /\ ~run.outcome.raised
        /\ LET items == IF ItemsOf(run.data) = None THEN <<>> ELSE ItemsOf(run.data).v
           IN  /\ Len(findings) = Len(SelectSeq(items, Mismatching))
               /\ \A k \in 1..Len(findings) :
                     IsTierFinding(findings[k], "warning", F_0_05, FALSE, F_0)

\* ------------------------------------------------------------------------
\* DuplicateLineItemRule on lists of line items
\* ------------------------------------------------------------------------

\* line items: the same name and amount, the amount as an int and as a
\* float, another name, no amount, no name, neither
DuplicateItems ==
    {[name |-> PyStr("Widget"), amount |-> PyInt(50)],
     [name |-> PyStr("Widget"), amount |-> PyFloat(5000)],
     [name |-> PyStr("Gadget"), amount |-> PyInt(50)],
     [name |-> PyStr("Widget")],
     [amount |-> PyInt(50)],
     [quantity |-> PyInt(1)]}

DuplicateRecords ==
    UNION {{[x \in {key} |-> PyList(l)] : l \in SeqsUpTo(DuplicateItems, MaxItems + 1)} :
               key \in {"line_items", "items"}}

DuplicateSpec ==
    RuleInit("DuplicateLineItemRule", DuplicateRecords, {InvoiceData, ReceiptData})
        /\ [][RuleNext]_vars

\* two line items share their (name, amount) pair
SamePair(a, b) ==
    /\ py_eq(dict_get(a, "name"), dict_get(b, "name"))
    /\ py_eq(dict_get(a, "amount"), dict_get(b, "amount"))

\* the item has neither a name nor an amount
Nameless(a) == dict_get(a, "name") = None /\ dict_get(a, "amount") = None

\* the position (from 1) of the first occurrence of the pair of item j
FirstOccurrence(items, j) ==
    CHOOSE m \in 1..j : SamePair(items[m], items[j])
                          /\ \A n \in 1..(m - 1) : ~SamePair(items[n], items[j])

\* s ends with suffix
EndsWith(s, suffix) ==
    Len(s) >= Len(suffix) /\ SubSeq(s, Len(s) - Len(suffix) + 1, Len(s)) = suffix

\* the finding is the duplicate Warning for the occurrence at position j
\* (from 1) of a pair first met at position m: it names both indexes
\* (from 0)
IsDuplicateFinding(f, key, m, j) ==
    /\ IsTierFinding(f, WARNING, F_0_05, TRUE, F_0_2)
    /\ f.rule_name = "duplicate_line_items"
    /\ f.field_name = PyStr(key \o "[" \o NatStr(j - 1) \o "]")
    /\ EndsWith(f.message, " appears at positions " \o NatStr(m - 1)
                               \o " and " \o NatStr(j - 1))

\* the findings are one per position in repeats, in order, each naming
\* the first occurrence of its pair
OnePerRepeat(items, key, repeats) ==
    /\ Len(findings) = Len(repeats)
    /\ \A n \in 1..Len(repeats) :
           IsDuplicateFinding(findings[n], key, FirstOccurrence(items, repeats[n]),
                              repeats[n])

\* the positions, in order, that satisfy a test
Positions(items, test(_)) == SelectSeq([j \in 1..Len(items) |-> j], test)

AmountValues == {PyFloat(-50000), PyInt(-1), PyFloat(0), PyFloat(1000), None}

\* the fields of both shapes, each absent or with one of the values
NegativeAmountsRecords ==
    Dicts(<<"total_amount", "total", "subtotal", "tax_amount", "tax">>,
          [k \in {"total_amount", "total", "subtotal", "tax_amount", "tax"} |->
              IF k \in {"tax_amount", "tax"}
              THEN {PyFloat(-50000), PyFloat(1000)} ELSE AmountValues])

NegativeAmountsSpec ==
    RuleInit("NegativeAmountsRule", NegativeAmountsRecords, {InvoiceData, ReceiptData})
        /\ [][RuleNext]_vars

\* total, subtotal and tax under the names of the shape
MonetaryFields(s) ==
    IF s = InvoiceData THEN <<"total_amount", "subtotal", "tax_amount">>
    ELSE <<"total", "subtotal", "tax">>

\* the fields of the shape that hold a number below zero, in order
NegativeFields(d, s) ==
    SelectSeq(MonetaryFields(s),
              LAMBDA k : /\ k \in DOMAIN d
                         /\ d[k] # None
                         /\ IF d[k].t = "int" THEN d[k].v < 0 ELSE d[k].cents < 0)

\* the engine has been called and has returned its verdict
Validated == run # None /\ run.result # None /\ ~run.result.raised

\* C18: one Error (confidence impact 0.15, fraud signal of weight 0.3) for
\* each of total, subtotal and tax, under the names of the shape, that is
\* a negative number and nothing for the others; the verdict on one such
\* Error alone is invalid with confidence 0.85 and fraud_risk medium, and
\* three such Errors give fraud_risk critical
C18_NegativeAmounts ==
    LET negative == NegativeFields(run.data, run.schema)
    IN  /\ Called /\ run.rule = "NegativeAmountsRule" =>
              /\ Len(findings) = Len(negative)
              /\ \A n \in 1..Len(negative) :
                     /\ IsTierFinding(findings[n], ERROR, F_0_15, TRUE, F_0_3)
                     /\ findings[n].field_name = PyStr(negative[n])
        /\ Validated /\ run.rule = "NegativeAmountsRule" =>
              /\ Len(negative) = 1 =>
                     /\ run.result.value.is_valid = FALSE
                     /\ run.result.value.confidence = F_0_85
                     /\ run.result.value.fraud_risk = "medium"
              /\ Len(negative) = 3 => run.result.value.fraud_risk = "critical"

\* {total_amount: -500.00} as an invoice: one Error, and the verdict is
\* invalid, 0.85, medium
C18_Witness ==
    /\ Called /\ Validated /\ run.rule = "NegativeAmountsRule"
    /\ run.data = [total_amount |-> PyFloat(-50000)]
    /\ run.schema = InvoiceData
    /\ Len(findings) = 1
    /\ findings[1].message = "Field 'total_amount' has negative value: -500.0"
    /\ run.result.value.errors = <<findings[1].message>>
    /\ run.result.value.fraud_risk = "medium"

\* ------------------------------------------------------------------------
\* RequiredFieldsRule on the mandatory fields of both shapes
\* ------------------------------------------------------------------------

\* each mandatory field of either shape absent, null, empty, blank, a
\* text, or a number, 0 included
RequiredFieldsRecords ==
    LET texts == {None, PyStr(""), PyStr(" \t"), PyStr("INV-1"), PyInt(0)}
        amounts == {None, PyInt(0), PyFloat(1000)}
        names == {PyStr("  "), PyStr("Acme")}
    IN  Dicts(<<"invoice_number", "date", "total_amount", "total",
                "vendor_name", "merchant_name">>,
              [k \in {"invoice_number", "date", "total_amount", "total",
                      "vendor_name", "merchant_name"} |->
                  CASE k \in {"invoice_number", "date"} -> texts
                    [] k \in {"total_amount", "total"} -> amounts
                    [] OTHER -> names])

RequiredFieldsSpec ==
    RuleInit("RequiredFieldsRule", RequiredFieldsRecords, {InvoiceData, ReceiptData})
        /\ [][RuleNext]_vars

\* the mandatory fields of a shape
MandatoryFields(s) ==
    IF s = InvoiceData THEN <<"invoice_number", "date", "total_amount", "vendor_name">>
    ELSE <<"merchant_name", "date", "total">>

\* a string without its leading and trailing blanks and tabs
RECURSIVE Trim(_)
Trim(s) ==
    IF s = "" THEN s
    ELSE IF Head(s) \in {" ", "\t"} THEN Trim(Tail(s))
    ELSE IF SubSeq(s, Len(s), Len(s)) \in {" ", "\t"} THEN Trim(SubSeq(s, 1, Len(s) - 1))
    ELSE s

\* the mandatory fields that are absent, null or a blank string, in order
MissingFields(d, s) ==
    SelectSeq(MandatoryFields(s),
              LAMBDA k : \/ k \notin DOMAIN d
                         \/ d[k] = None
                         \/ (d[k].t = "str" /\ Trim(d[k].v) = ""))

\* C19: one Warning (confidence impact 0.05, no fraud signal) for each
\* mandatory field of the shape that is absent, null or a string blank
\* after trimming, and nothing for the others: as many findings as
\* missing fields, 4 for an invoice with none and 3 for an empty receipt,
\* and a numeric 0 is present
C19_RequiredFields ==
    Called /\ run.rule = "RequiredFieldsRule" =>
        LET missing == MissingFields(run.data, run.schema)
        IN  /\ Len(findings) = Len(missing)
            /\ \A n \in 1..Len(missing) :
                   /\ IsTierFinding(findings[n], WARNING, F_0_05, FALSE, F_0)
                   /\ findings[n].field_name = PyStr(missing[n])
            /\ run.data = <<>> =>
                   Len(findings) = (IF run.schema = InvoiceData THEN 4 ELSE 3)
            /\ \A n \in 1..Len(findings) :
                   dict_get(run.data, findings[n].field_name.v) \notin {PyInt(0), PyFloat(0)}

\* an invoice with a blank number, a null date, a total of 0 and no
\* vendor: three findings, none for the total
C19_Witness ==
    /\ Called /\ run.rule = "RequiredFieldsRule" /\ run.schema = InvoiceData
    /\ run.data = [invoice_number |-> PyStr(" \t"), date |-> None,
                   total_amount |-> PyInt(0)]
    /\ Len(findings) = 3
    /\ findings[1].message = "Required field 'invoice_number' is missing or empty"
    /\ findings[3].field_name = PyStr("vendor_name")

\* ------------------------------------------------------------------------
\* DueDateAfterIssueDateRule on dates in the formats the parser knows
\* ------------------------------------------------------------------------

\* dates written in several formats, a day that does not exist, a text
\* that is no date, a number, null
DateValues ==
    {PyStr("2024-06-15"), PyStr("2024-01-01"), PyStr("06/15/2024"),
     PyStr("15/06/2024"), PyStr("June 16, 2024"), PyStr("1 Jan 2024"),
     PyStr("15.06.2024"), PyStr("02/30/2024"), PyStr("not-a-date"),
     PyInt(20240615), None}

DueDateRecords ==
    Dicts(<<"date", "due_date">>, [k \in {"date", "due_date"} |-> DateValues])

DueDateSpec ==
    RuleInit("DueDateAfterIssueDateRule", DueDateRecords, {InvoiceData, ReceiptData})
        /\ [][RuleNext]_vars

\* the day of the calendar a value names, as year * 10000 + month * 100
\* + day, or 0 for a value that names none
CalendarDay(v) ==
    CASE v = PyStr("2024-06-15") -> 20240615
      [] v = PyStr("2024-01-01") -> 20240101
      [] v = PyStr("06/15/2024") -> 20240615
      [] v = PyStr("15/06/2024") -> 20240615
      [] v = PyStr("June 16, 2024") -> 20240616
      [] v = PyStr("1 Jan 2024") -> 20240101
      [] v = PyStr("15.06.2024") -> 20240615
      [] OTHER -> 0

\* C20: exactly one Warning fraud signal of weight 0.15 if and only if
\* date and due_date are both present, both parse, and the due date is
\* strictly earlier than the issue date; nothing when the dates are
\* equal, when due is later, when either is absent or does not parse
C20_DueDateBeforeIssueDate ==
    Called /\ run.rule = "DueDateAfterIssueDateRule" =>
        LET issue == CalendarDay(dict_get(run.data, "date"))
            due == CalendarDay(dict_get(run.data, "due_date"))
        IN  IF issue # 0 /\ due # 0 /\ due < issue
            THEN /\ Len(findings) = 1
                 /\ findings[1].severity = WARNING
                 /\ findings[1].is_fraud_signal
                 /\ findings[1].fraud_weight = F_0_15
            ELSE findings = <<>>

\* {date: "2024-06-15", due_date: "2024-01-01"}: one finding
C20_Witness ==
    /\ Called /\ run.rule = "DueDateAfterIssueDateRule"
    /\ run.data = [date |-> PyStr("2024-06-15"), due_date |-> PyStr("2024-01-01")]
    /\ Len(findings) = 1
    /\ findings[1].message = "Due date (2024-01-01) is before issue date (2024-06-15)"

\* ------------------------------------------------------------------------
\* CardLastFourRule on card numbers written well and badly
\* ------------------------------------------------------------------------

\* four digits, letters, too short, too long, blanks around and inside, a
\* trailing newline, nothing, the number as an int and as a float, null
CardValues ==
    {PyStr("1234"), PyStr("0000"), PyStr("12AB"), PyStr("12"), PyStr("12345"),
     PyStr(" 1234"), PyStr("1234\n"), PyStr("12 34"), PyStr(""), PyStr("  "),
     PyInt(1234), PyInt(12), PyFloat(123400), None}

CardRecords ==
    Dicts(<<"card_last_four", "total">>,
          [k \in {"card_last_four", "total"} |->
              IF k = "total" THEN {PyFloat(1000)} ELSE CardValues])

CardLastFourSpec ==
    RuleInit("CardLastFourRule", CardRecords, {InvoiceData, ReceiptData})
        /\ [][RuleNext]_vars

AsciiDigits == {"0", "1", "2", "3", "4", "5", "6", "7", "8", "9"}

\* s is four characters, each one of 0-9
FourDigits(s) == Len(s) = 4 /\ \A k \in 1..4 : SubSeq(s, k, k) \in AsciiDigits

\* s is four digits with nothing but whitespace before and after them
FourDigitsInBlanks(s) ==
    \E j \in 1..Len(s) - 3 :
        /\ FourDigits(SubSeq(s, j, j + 3))
        /\ \A k \in (1..Len(s)) \ (j..j + 3) : SubSeq(s, k, k) \in {" ", "\t", "\n", "\r"}

\* the one Warning of the card rule
IsCardFinding(fs) ==
    /\ Len(fs) = 1
    /\ IsTierFinding(fs[1], WARNING, F_0_05, FALSE, F_0)
    /\ fs[1].rule_name = "card_last_four_format"
    /\ fs[1].field_name = PyStr("card_last_four")

QuantityItems ==
    {[quantity |-> PyInt(-5)], [quantity |-> PyInt(0)], [quantity |-> PyInt(10000)],
     [quantity |-> PyInt(10001)], [quantity |-> PyFloat(1000000)],
     [quantity |-> PyFloat(1000001)], [quantity |-> PyStr("50000")],
     [quantity |-> None], [amount |-> PyFloat(10000)],
     [name |-> PyStr("Bolts"), quantity |-> PyInt(50000)],
     PyStr("Bolts")}

QuantityRecords ==
    UNION {{[x \in {key} |-> PyList(l)] : l \in SeqsUpTo(QuantityItems, MaxItems)} :
               key \in {"line_items", "items"}}

ExtremeQuantitySpec ==
    RuleInit("ExtremeQuantityRule", QuantityRecords, {InvoiceData, ReceiptData})
        /\ [][RuleNext]_vars

\* the entry is a line item whose quantity is a number
HasQuantity(item) ==
    /\ IsDict(item)
    /\ "quantity" \in DOMAIN item
    /\ item["quantity"].t \in {"int", "float"}

\* its quantity is below 0 or above 10,000
Extreme(item) ==
    LET q == item["quantity"]
    IN  IF q.t = "int" THEN q.v < 0 \/ q.v > 10000
        ELSE q.cents < 0 \/ q.cents > 10000 * 100

\* C22: the findings are, in the order of the list, exactly one Warning
\* fraud signal of weight 0.15 for each line item whose numeric quantity
\* is negative or strictly above the ceiling of 10,000, and none for an
\* item with 0 <= quantity <= 10,000 nor for an item without a quantity
C22_ExtremeQuantityPerItem ==
    Called /\ run.rule = "ExtremeQuantityRule" =>
        LET key == items_key(run.data)
            items == run.data[key].v
            flagged == Positions(items,
                           LAMBDA j : HasQuantity(items[j]) /\ Extreme(items[j]))
        IN  /\ Len(findings) = Len(flagged)
            /\ \A n \in 1..Len(flagged) :
                   /\ findings[n].severity = WARNING
                   /\ findings[n].is_fraud_signal
                   /\ findings[n].fraud_weight = F_0_15
                   /\ findings[n].field_name
                        = PyStr(key \o "[" \o NatStr(flagged[n] - 1) \o "].quantity")

\* [{quantity: 10000}, {name: "Bolts", quantity: 50000}]: one finding, for
\* the second item
C22_Witness ==
    /\ Called /\ run.rule = "ExtremeQuantityRule"
    /\ run.data = [line_items |-> PyList(<<[quantity |-> PyInt(10000)],
                                            [name |-> PyStr("Bolts"),
                                             quantity |-> PyInt(50000)]>>)]
    /\ Len(findings) = 1
    /\ findings[1].message
         = "Line item 'Bolts' has extreme quantity: 50000 (threshold: 10000.0)"

\* ------------------------------------------------------------------------
\* RoundNumberRule on totals around the floor
\* ------------------------------------------------------------------------

\* 10,000.00, the floor as an int and as a float, one below, 0, a whole
\* number that is no multiple of 1,000, a multiple with cents, 2,000, an
\* ordinary amount, a text, null
RoundTotals ==
    {PyFloat(1000000), PyInt(1000), PyFloat(100000), PyInt(999), PyInt(0),
     PyFloat(150000), PyFloat(200050), PyInt(2000), PyFloat(123456),
     PyStr("1000"), None}

RoundNumberRecords ==
    Dicts(<<"total_amount", "total">>,
          [k \in {"total_amount", "total"} |-> RoundTotals])

RoundNumberSpec ==
    RuleInit("RoundNumberRule", RoundNumberRecords, {InvoiceData, ReceiptData})
        /\ [][RuleNext]_vars

\* a number of at least 1,000 that is a multiple of 1,000
RoundAboveFloor(v) ==
    CASE v.t = "int" -> v.v >= 1000 /\ v.v % 1000 = 0
      [] v.t = "float" -> v.cents >= 1000 * 100 /\ v.cents % (1000 * 100) = 0
      [] OTHER -> FALSE

\* C23: exactly one Warning fraud signal of weight 0.15 if and only if the
\* total of the shape (total_amount for invoices, total for receipts) is a
\* number >= 1,000 without a fractional part and divisible by 1,000;
\* nothing for a round total below the floor, a total that is not round
\* and an absent total
C23_RoundNumber ==
    Called /\ run.rule = "RoundNumberRule" =>
        LET total_field == IF run.schema = InvoiceData THEN "total_amount" ELSE "total"
        IN  IF total_field \in DOMAIN run.data /\ RoundAboveFloor(run.data[total_field])
            THEN /\ Len(findings) = 1
                 /\ IsTierFinding(findings[1], WARNING, F_0_05, TRUE, F_0_15)
                 /\ findings[1].field_name = PyStr(total_field)
            ELSE findings = <<>>

\* {total_amount: 10000.00} as an invoice: one finding
C23_Witness ==
    /\ Called /\ run.rule = "RoundNumberRule" /\ run.schema = InvoiceData
    /\ run.data = [total_amount |-> PyFloat(1000000)]
    /\ Len(findings) = 1
    /\ findings[1].message = "Total amount (10000.00) is a suspiciously round number"

\* ------------------------------------------------------------------------
\* Harvestor (src/src/harvestor/core/harvestor.py): the engine it builds
\* when validation is asked for, and the verdict it attaches to the result
\* of an extraction.  The extraction itself, a call to a language model, is
\* an input: it succeeded or failed and gave a record.
\* ------------------------------------------------------------------------

\* a bool given as an argument
PyBool(b) == [t |-> "bool", v |-> b]

\* Harvestor.__init__(validate=False, validation_rules=None): the two
\* attributes it sets; an argument that is not given is None here, and the
\* engine is held as its rule list
Harvestor_init(validate_arg, validation_rules) ==
    LET enabled == validate_arg # None /\ validate_arg.v
    IN  [_validate |-> enabled,
         _validation_engine |->
             IF enabled THEN PyList(__init__(validation_rules, TRUE)) ELSE None]

\* HarvestResult(success=..., data=..., error=...): validation defaults to None
HarvestResult(success, d, error) ==
    [success |-> success, data |-> d, validation |-> None, error |-> error]

\* self._validate and self._validation_engine
wanted_whatever_the_outcome(self, res) == self._validate /\ self._validation_engine # None

\* self._validate and self._validation_engine and result.success
wanted(self, res) ==
    self._validate /\ self._validation_engine # None /\ res.success

\* Harvestor._maybe_validate(result, schema)
_maybe_validate(self, res, s, compensated) ==
    LET attached(v) == IF v.raised THEN v
                       ELSE Return([res EXCEPT !.validation = v.value])
    IN  IF wanted(self, res)
        THEN attached(validate(self._validation_engine.v, res.data, s, compensated))
        ELSE Return(res)

\* Harvestor.harvest_text(text, schema), given what the parser extracted
harvest_text(self, extraction, s, compensated) ==
    _maybe_validate(self,
                    HarvestResult(extraction.success, extraction.data, extraction.error),
                    s, compensated)

\* Harvestor.harvest_file(source, schema) of a text file: harvest_text
\* inside try/except Exception
harvest_file(self, extraction, s, compensated) ==
    LET caught(r) == IF r.raised
                     THEN Return(HarvestResult(FALSE, <<>>, "Extraction failed: " \o r.exc))
                     ELSE r
    IN  caught(harvest_text(self, extraction, s, compensated))

\* the rules a caller hands to Harvestor: the two of the tests, one
\* restricted to invoices, one whose applicability test raises
HarvestRules == {"_DummyRule", "_CrashingRule", "RuleB", "BadAppliesRule"}
HarvestRuleLists ==
    {None} \cup {PyList(l) : l \in UNION {[1..n -> HarvestRules] : n \in 0..MaxRules}}

\* what the parser gives: a record, or a failure
Extractions ==
    {[success |-> TRUE, data |-> d, error |-> None] : d \in Records}
        \cup {[success |-> FALSE, data |-> <<>>, error |-> PyStr("API error")]}

HarvestInit ==
    /\ run \in [validate : {None, PyBool(TRUE), PyBool(FALSE)}, validation_rules : HarvestRuleLists,
                extraction : Extractions, schema : Schemas,
                harvestor : {None}, method : {"none"}, result : {None}]
    /\ compensated_sum \in BOOLEAN
    /\ _rules = <<>>
    /\ registered = <<>>
    /\ SequentialIdle
    /\ NoCalls

\* harvestor = Harvestor(validate=..., validation_rules=...)
Harvestor_construct ==
    /\ run.harvestor = None
    /\ run' = [run EXCEPT !.harvestor = Harvestor_init(run.validate, run.validation_rules)]
    /\ UNCHANGED <<_rules, pc, data, schema, it, i, all_findings, rules_checked, result,
                   compensated_sum, registered, last_removed, calls, frames>>

\* result = harvestor.harvest_text(text, schema)
harvest_text_call ==
    /\ run.harvestor # None /\ run.result = None
    /\ run' = [run EXCEPT !.method = "harvest_text",
                          !.result = harvest_text(run.harvestor, run.extraction,
                                                  run.schema, compensated_sum)]
    /\ UNCHANGED <<_rules, pc, data, schema, it, i, all_findings, rules_checked, result,
                   compensated_sum, registered, last_removed, calls, frames>>

\* result = harvestor.harvest_file(path, schema)
harvest_file_call ==
    /\ run.harvestor # None /\ run.result = None
    /\ run' = [run EXCEPT !.method = "harvest_file",
                          !.result = harvest_file(run.harvestor, run.extraction,
                                                  run.schema, compensated_sum)]
    /\ UNCHANGED <<_rules, pc, data, schema, it, i, all_findings, rules_checked, result,
                   compensated_sum, registered, last_removed, calls, frames>>

HarvestNext == Harvestor_construct \/ harvest_text_call \/ harvest_file_call

HarvestSpec == HarvestInit /\ [][HarvestNext]_vars

\* a harvest call has returned its HarvestResult
Harvested == run # None /\ run.result # None /\ ~run.result.raised

\* the caller's rules, as a list
OwnRules == IF run.validation_rules = None THEN <<>> ELSE run.validation_rules.v

DateTexts ==
    {PyStr("2024-06-15"), PyStr("06/15/2024"), PyStr("June 16, 2024"),
     PyStr("1 Jan 2024"), PyStr("15.06.2024"), PyStr("02/30/2024"),
     PyStr("2024-13-45"), PyStr("6/15/2024"), PyStr("due 2024-06-15"),
     PyStr("Sept 15, 2024"), PyStr("not-a-date"), PyInt(20240615), None}

DateFormatRecords ==
    Dicts(<<"date", "due_date">>, [k \in {"date", "due_date"} |-> DateTexts])

DateFormatInit ==
    /\ run \in [rule : {"DateFormatRule"}, data : DateFormatRecords,
                schema : {InvoiceData, ReceiptData},
                outcome : {None}, result : {None}, parsed : {None}]
    /\ compensated_sum \in BOOLEAN
    /\ _rules = <<"DateFormatRule">>
    /\ registered = <<"DateFormatRule">>
    /\ SequentialIdle
    /\ NoCalls

\* the fields of the record that hold a str
TextFields(d) == {k \in DOMAIN d : d[k] # None /\ d[k].t = "str"}

\* _try_parse_date(value) for each str of the record
parse_call ==
    /\ run.parsed = None
    /\ run' = [run EXCEPT !.parsed = [k \in TextFields(run.data) |->
                                         _try_parse_date(run.data[k].v)]]
    /\ UNCHANGED <<_rules, pc, data, schema, it, i, all_findings, rules_checked, result,
                   compensated_sum, registered, last_removed, calls, frames>>

DateFormatNext == rule_call \/ engine_call \/ parse_call

DateFormatSpec == DateFormatInit /\ [][DateFormatNext]_vars

\* the date fields of the shape
DateFields(s) == IF s = InvoiceData THEN {"date", "due_date"} ELSE {"date"}

\* both the rule and the parser have been called
Parsed == Called /\ run.parsed # None

\* C25: for every str in a date field the parser of the due-date rule
\* gives a date if and only if the date-format rule has no finding for
\* the field
C25_ParserAcceptsIffFormatRuleIsSilent ==
    Parsed /\ run.rule = "DateFormatRule" =>
        \A k \in TextFields(run.data) \cap DateFields(run.schema) :
            run.parsed[k] # None
                <=> ~\E n \in 1..Len(findings) : findings[n].field_name = PyStr(k)

\* ------------------------------------------------------------------------
\* The default registry, and what an engine built from it records for
\* each shape
\* ------------------------------------------------------------------------

\* the names of the sixteen built-in rules by family
ArithmeticNames ==
    <<"line_items_sum_to_subtotal", "subtotal_plus_tax_equals_total",
      "line_item_internal_math", "tax_percentage_consistency">>
FormatNames ==
    <<"date_format_valid", "currency_code_valid", "tax_id_format_valid",
      "card_last_four_format">>
BusinessNames ==
    <<"required_fields_present", "due_date_after_issue_date", "no_negative_amounts",
      "amount_threshold", "line_items_not_empty">>
AnomalyNames == <<"round_number_anomaly", "duplicate_line_items", "extreme_quantity">>

\* a sequence without the entries of a set
Without(seq, S) == SelectSeq(seq, LAMBDA x : x \notin S)

\* C26: the engine built with defaults holds sixteen rules of pairwise
\* distinct names, arithmetic (4), format (4), business (5), anomaly (3) in
\* this order; a verdict on the invoice shape records the fifteen other
\* than card_last_four_format, one on the receipt shape the thirteen other
\* than currency_code_valid, tax_id_format_valid and
\* due_date_after_issue_date, one on any other schema none
C26_DefaultRegistryByShape ==
    LET all == ArithmeticNames \o FormatNames \o BusinessNames \o AnomalyNames
    IN  /\ Len(_rules) = 16
        /\ [k \in 1..Len(_rules) |-> rule_name(_rules[k])] = all
        /\ \A j, k \in 1..Len(_rules) : j # k => rule_name(_rules[j]) # rule_name(_rules[k])
        /\ Returned =>
              verdict.rules_checked =
                  CASE schema = InvoiceData -> Without(all, {"card_last_four_format"})
                    [] schema = ReceiptData ->
                          Without(all, {"currency_code_valid", "tax_id_format_valid",
                                        "due_date_after_issue_date"})
                    [] OTHER -> <<>>

\* a verdict on a receipt: thirteen rules, card_last_four_format among them
C26_Witness ==
    /\ Returned
    /\ _rules = get_all_default_rules
    /\ schema = ReceiptData
    /\ Len(verdict.rules_checked) = 13
    /\ verdict.rules_checked[6] = "card_last_four_format"

\* ------------------------------------------------------------------------
\* The findings of the sixteen built-in rules, each rule called on its own
\* and all of them by the default engine, ValidationEngine().
\* ------------------------------------------------------------------------

\* line items for the tax percentage: consistent taxes, taxes a hundredth
\* beyond the tolerance, taxes off by 2.00 against the price without taxes,
\* no taxes, taxes that are a text, and an entry that is no item
TaxItems ==
    {[taxes |-> PyFloat(1000), taxes_percentage |-> PyInt(10), amount |-> PyFloat(10000)],
     [taxes |-> PyFloat(1003), taxes_percentage |-> PyInt(10), amount |-> PyFloat(10000)],
     [name |-> PyStr("Bolts"), taxes |-> PyFloat(1200), taxes_percentage |-> PyFloat(1000),
      unit_price_without_taxes |-> PyFloat(10000)],
     [taxes_percentage |-> PyInt(10), amount |-> PyFloat(10000)],
     [taxes |-> PyStr("10.00"), taxes_percentage |-> PyInt(10), amount |-> PyFloat(10000)],
     PyStr("Bolts")}

TaxRecords ==
    UNION {{[x \in {key} |-> PyList(l)] : l \in SeqsUpTo(TaxItems, MaxItems)} :
               key \in {"line_items", "items"}}

\* currency codes and tax ids: known and unknown codes, in lower case and
\* in blanks; ids of four and five characters, in blanks; values that are
\* no text
CodeRecords ==
    Dicts(<<"currency", "vendor_tax_id">>,
          [currency |-> {None, PyStr("USD"), PyStr(" eur "), PyStr("EURO"), PyStr(""),
                         PyInt(5)},
           vendor_tax_id |-> {None, PyStr("1234"), PyStr("12345"), PyStr("  1234  "),
                              PyStr(""), PyInt(12345)}])

\* totals at the threshold of 50,000 and a hundredth above, under both
\* names, and line items present but empty
ThresholdRecords ==
    Dicts(<<"total_amount", "total", "line_items", "items">>,
          [total_amount |-> {None, PyFloat(5000000), PyFloat(5000001), PyStr("60000")},
           total |-> {None, PyInt(50000), PyInt(50001)},
           line_items |-> {None, PyList(<<>>)},
           items |-> {PyList(<<>>), PyList(<<[amount |-> PyFloat(100)]>>)}])

\* the mandatory fields of both shapes, absent or present; the invoice
\* number also empty
MandatoryRecords ==
    Dicts(<<"invoice_number", "date", "total_amount", "total",
            "vendor_name", "merchant_name">>,
          [invoice_number |-> {PyStr(""), PyStr("INV-1")},
           date |-> {PyStr("2024-01-15")},
           total_amount |-> {PyFloat(1000)},
           total |-> {PyInt(0)},
           vendor_name |-> {PyStr("Acme")},
           merchant_name |-> {PyStr("  ")}])

\* the monetary fields of both shapes, absent, negative or positive
SignedRecords ==
    Dicts(<<"total_amount", "total", "subtotal", "tax_amount", "tax">>,
          [total_amount |-> {PyFloat(-50000), PyFloat(1000)},
           total |-> {PyInt(-1), PyFloat(1000)},
           subtotal |-> {PyFloat(-50000), PyFloat(1000)},
           tax_amount |-> {PyFloat(-50000), PyFloat(0)},
           tax |-> {PyFloat(-50000)}])

\* those of the records that carry at most two line items
WithFewItems(records) ==
    {d \in records :
        \A k \in DOMAIN d :
            d[k] = None \/ IsDict(d[k]) \/ d[k].t # "list" \/ Len(d[k].v) <= 2}

\* the records a built-in rule is called on
AllBuiltinRecords(rule) ==
    CASE rule = "LineItemsSumRule" -> LineItemsSumRecords
      [] rule = "SubtotalTaxTotalRule" -> SubtotalTaxTotalRecords
      [] rule = "LineItemMathRule" -> LineItemMathRecords
      [] rule = "TaxConsistencyRule" -> TaxRecords
      [] rule = "DateFormatRule" -> DateFormatRecords
      [] rule \in {"CurrencyCodeRule", "TaxIdFormatRule"} -> CodeRecords
      [] rule = "CardLastFourRule" -> CardRecords
      [] rule = "RequiredFieldsRule" -> MandatoryRecords
      [] rule = "DueDateAfterIssueDateRule" -> DueDateRecords
      [] rule = "NegativeAmountsRule" -> SignedRecords
      [] rule \in {"AmountThresholdRule", "EmptyLineItemsRule"} -> ThresholdRecords
      [] rule = "RoundNumberRule" -> RoundNumberRecords
      [] rule = "DuplicateLineItemRule" -> DuplicateRecords
      [] rule = "ExtremeQuantityRule" -> QuantityRecords

BuiltinRecords(rule) == WithFewItems(AllBuiltinRecords(rule))

\* engine = ValidationEngine(), and a built-in rule with a record
BuiltinInit ==
    /\ \E k \in 1..Len(get_all_default_rules) :
           run \in [rule : {get_all_default_rules[k]},
                    data : BuiltinRecords(get_all_default_rules[k]),
                    schema : {InvoiceData, ReceiptData},
                    outcome : {None}, result : {None}]
    /\ compensated_sum \in BOOLEAN
    /\ _rules = __init__(None, TRUE)
    /\ registered = get_all_default_rules
    /\ SequentialIdle
    /\ NoCalls

BuiltinSpec == BuiltinInit /\ [][RuleNext]_vars

\* fraud_weight > 0 exactly when is_fraud_signal, fraud_weight in [0, 1],
\* confidence_impact one of 0.05, 0.10, 0.15
WellFormed(f) ==
    /\ float_lt(F_0, f.fraud_weight) <=> f.is_fraud_signal
    /\ ~float_lt(f.fraud_weight, F_0)
    /\ ~float_lt(F_1, f.fraud_weight)
    /\ f.confidence_impact \in {F_0_05, F_0_1, F_0_15}

InfoSpecRules == {"InfoRule", "RuleA", "RuleB", "RuleC", "_CrashingRule"}

\* engine = ValidationEngine(rules=[...], include_defaults=False)
InfoInit ==
    /\ \E rules \in SeqsUpTo(InfoSpecRules, MaxRules) :
           /\ _rules = __init__(PyList(rules), FALSE)
           /\ registered = rules
    /\ compensated_sum \in BOOLEAN
    /\ last_removed = ""
    /\ SequentialIdle
    /\ NoCalls
    /\ NoRun

InfoNext ==
    \/ \E d \in Records, s \in Schemas : validate_begin(d, s)
    \/ validate_rule
    \/ validate_return

InfoSpec == InfoInit /\ [][InfoNext]_vars

\* the findings of severity Info, and the others
InfoFindings == SelectSeq(all_findings, LAMBDA f : f.severity = INFO)
SurfacedFindings == SelectSeq(all_findings, LAMBDA f : f.severity # INFO)

\* the bucket of the capped sum of the weights
RiskOf(weights) ==
    LET bucket(w) ==
            IF weights = <<>> \/ float_lt(w, F_0_01) THEN "clean"
            ELSE IF float_lt(w, F_0_2) THEN "low"
            ELSE IF float_lt(w, F_0_5) THEN "medium"
            ELSE IF float_lt(w, F_0_8) THEN "high"
            ELSE "critical"
    IN  bucket(py_min(F_1, py_sum(weights, compensated_sum)))

\* C28: an Info finding is reduced like any other: confidence is 1.0 minus
\* the impacts of all findings, Info included; the message of an Info
\* finding flagged as a fraud signal is in fraud_reasons and its weight in
\* the sum that gives fraud_risk; yet errors and warnings hold the messages
\* of the other findings only.
C28_InfoFindingsAreReduced ==
    Returned =>
        /\ ~float_lt(Rounding, Distance(verdict.confidence,
                 Clamp01(exact_add(F_1, float_neg(ImpactSum(InfoFindings \o SurfacedFindings))))))
        /\ \A k \in 1..Len(InfoFindings) :
               /\ InfoFindings[k].message \notin Range(verdict.errors)
               /\ InfoFindings[k].message \notin Range(verdict.warnings)
               /\ InfoFindings[k].is_fraud_signal
                     => InfoFindings[k].message \in Range(verdict.fraud_reasons)
        /\ Len(verdict.errors) + Len(verdict.warnings) = Len(SurfacedFindings)
        /\ Len(verdict.fraud_reasons) = Len(FlaggedWeights(all_findings))
        /\ verdict.fraud_risk = RiskOf(FlaggedWeights(all_findings))

\* a valid verdict without errors and warnings, with confidence below 1.0
\* and a fraud risk that is not clean: all its findings are Info
C28_Witness ==
    /\ Returned
    /\ verdict.is_valid
    /\ verdict.errors = <<>>
    /\ verdict.warnings = <<>>
    /\ float_lt(verdict.confidence, F_1)
    /\ verdict.fraud_risk # "clean"
    /\ InfoFindings # <<>>
    /\ \E k \in 1..Len(InfoFindings) : InfoFindings[k].is_fraud_signal

\* ------------------------------------------------------------------------
\* add_rule and remove_rule from another thread while validate runs.  The
\* loop walks the list object that self._rules named when the call began:
\* remove_rule binds self._rules to a new list, add_rule appends to the list
\* self._rules names.  run is the history of the call: the rules at its
\* start, the iterator's position when self._rules was first rebound (0:
\* not yet), the rules appended to the list it walks, and the name removed
\* before it began.
\* ------------------------------------------------------------------------

\* two rules of one name and a rule for invoices only; a name that two
\* rules bear and a name that none bears
MeanwhileRules == {"_DummyRule", "RuleB", "RuleC"}
MeanwhileNames == {"dummy_rule", "no_such_rule"}
MeanwhileSchemas == {InvoiceData, ReceiptData}

MeanwhileInit ==
    /\ _rules \in SeqsUpTo(MeanwhileRules, MaxRules)
    /\ registered = _rules
    /\ compensated_sum \in BOOLEAN
    /\ SequentialIdle
    /\ NoCalls
    /\ run = [rules |-> <<>>, rebound_at |-> 0, grown |-> <<>>, gone |-> ""]

\* the list the loop walks is the list self._rules names
Aliased == pc = "loop" /\ run.rebound_at = 0

\* ValidationEngine.validate, entry
validate_enter(d, s) ==
    /\ Idle
    /\ pc' = "loop"
    /\ data' = d
    /\ schema' = s
    /\ it' = _rules
    /\ i' = 1
    /\ all_findings' = <<>>
    /\ rules_checked' = <<>>
    /\ result' = None
    /\ run' = [rules |-> _rules, rebound_at |-> 0, grown |-> <<>>, gone |-> last_removed]
    /\ UNCHANGED <<_rules, compensated_sum, registered, last_removed, calls, frames>>

\* a fault: the rules are deleted from the list self._rules names
remove_rule_in_place(name) ==
    /\ _rules' = Filter(_rules, LAMBDA r : rule_name(r) # name)
    /\ registered' = SelectSeq(registered, LAMBDA r : rule_name(r) # name)
    /\ last_removed' = name
    /\ it' = IF Aliased THEN Filter(it, LAMBDA r : rule_name(r) # name) ELSE it
    /\ UNCHANGED <<pc, data, schema, i, all_findings, rules_checked, result,
                   compensated_sum, calls, frames, run>>

\* ValidationEngine.remove_rule, at any moment of a call
remove_rule_meanwhile(name) ==
    /\ _rules' = Filter(_rules, LAMBDA r : rule_name(r) # name)
    /\ registered' = SelectSeq(registered, LAMBDA r : rule_name(r) # name)
    /\ last_removed' = name
    /\ run' = IF Aliased THEN [run EXCEPT !.rebound_at = i] ELSE run
    /\ UNCHANGED <<pc, data, schema, it, i, all_findings, rules_checked, result,
                   compensated_sum, calls, frames>>

\* ValidationEngine.add_rule, at any moment of a call
add_rule_meanwhile(rule) ==
    /\ UserCount(_rules) < MaxRules
    /\ _rules' = Append(_rules, rule)
    /\ registered' = Append(registered, rule)
    /\ last_removed' = IF rule_name(rule) = last_removed THEN "" ELSE last_removed
    /\ it' = IF Aliased THEN Append(it, rule) ELSE it
    /\ run' = IF Aliased
              THEN [run EXCEPT !.grown = Append(@, rule),
                               !.gone = IF rule_name(rule) = @ THEN "" ELSE @]
              ELSE run
    /\ UNCHANGED <<pc, data, schema, i, all_findings, rules_checked, result,
                   compensated_sum, calls, frames>>

MeanwhileNext ==
    \/ \E s \in MeanwhileSchemas : validate_enter(NegativeTotal, s)
    \/ validate_rule
    \/ validate_return
    \/ \E name \in MeanwhileNames : remove_rule_meanwhile(name)
    \/ \E rule \in MeanwhileRules : add_rule_meanwhile(rule)

MeanwhileSpec == MeanwhileInit /\ [][MeanwhileNext]_vars

\* C29: a call of validate evaluates the rules that were registered when
\* it began, each once and in their order (and after them the rules
\* appended to that list meanwhile), whatever remove_rule has taken from
\* the engine since; a call that begins after a removal does not evaluate
\* a rule of the removed name.
C29_RemovalSparesTheCallInProgress ==
    pc = "done" =>
        /\ it = run.rules \o run.grown
        /\ i = Len(it) + 1
        /\ Returned
        /\ verdict.rules_checked = ApplicableNames(run.rules \o run.grown, schema)
        /\ all_findings = Contributions(run.rules \o run.grown, data, schema)
        /\ run.gone # "" => run.gone \notin Range(verdict.rules_checked)

\* a call has returned; when its first rule had been evaluated and another
\* was still to come, remove_rule took that other rule from the engine, and
\* the call evaluated it all the same
C29_Witness ==
    /\ pc = "done"
    /\ Returned
    /\ run.rebound_at = 2
    /\ \E k \in 2..Len(run.rules) :
          /\ \A j \in 1..Len(_rules) : rule_name(_rules[j]) # rule_name(run.rules[k])
          /\ rule_name(run.rules[k]) \in Range(verdict.rules_checked)
          /\ Applicable(run.rules[k], schema)

\* ------------------------------------------------------------------------
\* The lists a caller holds: the list given to the constructor and the list
\* the rules property returned.  run holds both, each with the mark "same":
\* it is the very list object self._rules names.
\* ------------------------------------------------------------------------

\* the rules the engine is given, and the rule the caller puts in its lists
OwnedRules == {"_DummyRule", "RuleB"}
CallerRules == {"RuleA"}

\* a fault: the property hands out self._rules itself
rules_property_itself(self_rules) == [list |-> self_rules, same |-> TRUE, changed |-> FALSE]

\* the rules property: list(self._rules), a new list of the same rules
rules_property(self_rules) == [list |-> self_rules, same |-> FALSE, changed |-> FALSE]

\* the list given to the constructor: __init__ extends its own new list by
\* it and keeps no reference to it
given_list(given) == [list |-> given, same |-> FALSE, changed |-> FALSE]

\* given = [...]; engine = ValidationEngine(rules=given, include_defaults=False)
OwnedInit ==
    /\ \E given \in SeqsUpTo(OwnedRules, MaxRules) :
           /\ _rules = __init__(PyList(given), FALSE)
           /\ registered = given
           /\ run = [given |-> given_list(given), returned |-> None]
    /\ compensated_sum \in BOOLEAN
    /\ SequentialIdle
    /\ NoCalls

\* returned = engine.rules
rules_get ==
    /\ Idle
    /\ run' = [run EXCEPT !.returned = rules_property(_rules)]
    /\ UNCHANGED <<_rules, pc, data, schema, it, i, all_findings, rules_checked, result,
                   compensated_sum, registered, last_removed, calls, frames>>

\* what the caller does to a list it holds: append a rule, clear it, or
\* take its last rule away
Mutations == {"append", "clear", "pop"}
mutated(list, how, rule) ==
    CASE how = "append" -> Append(list, rule)
      [] how = "clear" -> <<>>
      [] how = "pop" -> SubSeq(list, 1, Len(list) - 1)

\* the caller changes one of its lists; the engine's list changes with it
\* when it is the same object
mutate(which, how, rule) ==
    /\ Idle
    /\ run[which] # None
    /\ how = "pop" => run[which].list # <<>>
    /\ how = "append" => Len(run[which].list) < MaxRules
    /\ run' = [run EXCEPT ![which] = [list |-> mutated(@.list, how, rule),
                                      same |-> @.same, changed |-> TRUE]]
    /\ _rules' = IF run[which].same THEN mutated(_rules, how, rule) ELSE _rules
    /\ ForgetCall
    /\ UNCHANGED <<compensated_sum, registered, last_removed, calls, frames>>

OwnedNext ==
    \/ \E rule \in OwnedRules : add_rule(rule)
    \/ \E name \in {"dummy_rule"} : remove_rule(name)
    \/ rules_get
    \/ \E how \in Mutations, rule \in CallerRules : mutate("given", how, rule)
    \/ \E how \in Mutations, rule \in CallerRules : mutate("returned", how, rule)
    \/ \E s \in {InvoiceData, ReceiptData} : validate_begin(NegativeTotal, s)
    \/ validate_rule
    \/ validate_return

OwnedSpec == OwnedInit /\ [][OwnedNext]_vars

\* C30: the engine's rules are the rules the constructor was given, then
\* those add_rule appended, without those remove_rule took away, whatever
\* the caller has done to the list it gave the constructor or to a list the
\* rules property returned; and a call of validate evaluates these rules.
C30_OnlyAddAndRemoveChangeTheRules ==
    /\ _rules = registered
    /\ pc = "done" =>
          /\ it = registered
          /\ Returned
          /\ verdict.rules_checked = ApplicableNames(registered, schema)
          /\ verdict = validate(registered, data, schema, compensated_sum).value

\* the caller has changed both its lists, both differ from the engine's
\* rules, and a call of validate made since has returned
C30_Witness ==
    /\ pc = "done"
    /\ Returned
    /\ verdict.rules_checked # <<>>
    /\ run.returned # None
    /\ run.given.changed /\ run.given.list # _rules
    /\ run.returned.changed /\ run.returned.list # _rules

============================================================================
